---- MODULE Spec2Model ----
(***************************************************************************)
(* MILMS: the document-to-question parser (quiz/utils.py) and the          *)
(* multi-stage descriptive answer evaluator (descriptive_evaluation.py).   *)
(*                                                                         *)
(* Text is modelled as a sequence of one-character strings, so that the    *)
(* string operations of the source (strip, split, the regular expressions) *)
(* are computed character by character.                                    *)
(***************************************************************************)
EXTENDS Integers, Sequences, FiniteSets, TLC

\* ------------------------------------------------------------------------
\* Bounds of the model
\* ------------------------------------------------------------------------

\* longest document (paragraphs, table cells or pages) given to the parser
MaxLines == 5

\* deepest nesting of braces in an object embedded in generated text
MaxDepth == 3

\* most points or keywords an analysis lists as covered
MaxCovered == 2

\* most points or keywords a rubric holds
MaxTotal == 2

\* most contradictions, and most factual errors, of one answer
MaxPenalties == 2

\* the longest list of questions given to the validator
MaxQuestions == 2
MaxOptions == 6
MaxRetries == 4
MaxAttempts == 2
MaxQuizQuestions == 1
MaxUploadRequests == 3

\* ------------------------------------------------------------------------
\* State
\* ------------------------------------------------------------------------
VARIABLES
    doc,        \* parser: the document, [paras |-> lines, cells |-> lines]
    p_op,       \* parser: the operation that has run ("idle" before)
    p_env,      \* parser: [exists, readable] of the file the call was given
    p_out,      \* parser: what the operation returned or raised
    j_text,     \* JSON extractor: the generated text, a sequence of tokens
    j_obj,      \* JSON extractor: the object that was embedded in j_text
    j_out,      \* JSON extractor: what _extract_json returned or raised
    s_in,       \* aggregator: [analysis, contradictions, rubric, max_score]
    s_out,      \* aggregator: what _calculate_final_scores returned
    e_pc,       \* evaluate_answer: the stage that runs next
    e_in,       \* evaluate_answer: [standard_answer, max_score]
    e_gold,     \* evaluate_answer: gold_answer
    e_rubric,   \* evaluate_answer: rubric
    e_analysis, \* evaluate_answer: analysis
    e_contra,   \* evaluate_answer: contradictions
    e_log,      \* evaluate_answer: per stage run, [stage, called, how, gen]
    e_out,      \* evaluate_answer: what it returned or raised
    v_in,       \* validator: the list of question dicts it is given
    v_out,      \* validator: what validate_questions returned
    f_in,       \* repair: [question_text, options] given to _fix_question_structure
    f_out,      \* repair: what _fix_question_structure returned
    a_pc,       \* _call_api: idle, request (a request is in flight) or done
    a_max,      \* _call_api: max_retries
    a_attempt,  \* _call_api: the loop variable attempt
    a_log,      \* _call_api: per request made, [attempt, response, wait]
    a_out,      \* _call_api: what it returned
    t_profiles, \* attempts: per student, the profile [institution, student_name, roll_number]
    t_quiz,     \* attempts: the quiz [is_active, auto_evaluate, questions]
    t_attempts, \* attempts: the DescriptiveQuizAttempt rows with their answers, by id
    t_hist,     \* attempts: per student, which requests were served so far
    t_resp,      \* attempts: what take_descriptive_quiz answered last
    u_file,     \* upload: whether the file parses and how many questions it holds
    u_upload,   \* upload: the QuestionUpload row [processed, questions_imported, error]
    u_req,      \* upload: per request, its view, whether it may see the upload, and where it is
    u_created   \* upload: per request, the number of Question rows it created

parserVars == <<doc, p_op, p_env, p_out>>
jsonVars == <<j_text, j_obj, j_out>>
scoreVars == <<s_in, s_out>>
evalVars == <<e_pc, e_in, e_gold, e_rubric, e_analysis, e_contra, e_log, e_out>>
validateVars == <<v_in, v_out>>
repairVars == <<f_in, f_out>>
apiVars == <<a_pc, a_max, a_attempt, a_log, a_out>>
attemptVars == <<t_profiles, t_quiz, t_attempts, t_hist, t_resp>>
uploadVars == <<u_file, u_upload, u_req, u_created>>

vars == <<doc, p_op, p_env, p_out, j_text, j_obj, j_out, s_in, s_out,
          e_pc, e_in, e_gold, e_rubric, e_analysis, e_contra, e_log, e_out,
          v_in, v_out,
          f_in, f_out,
          a_pc, a_max, a_attempt, a_log, a_out,
          t_profiles, t_quiz, t_attempts, t_hist, t_resp,
          u_file, u_upload, u_req, u_created>>

\* ------------------------------------------------------------------------
\* Characters and strings
\* ------------------------------------------------------------------------
LowerLetters == <<"a","b","c","d","e","f","g","h","i","j","k","l","m",
                  "n","o","p","q","r","s","t","u","v","w","x","y","z">>
UpperLetters == <<"A","B","C","D","E","F","G","H","I","J","K","L","M",
                  "N","O","P","Q","R","S","T","U","V","W","X","Y","Z">>
Digits == {"0","1","2","3","4","5","6","7","8","9"}
DigitChar == <<"1","2","3","4","5","6","7","8","9">>

Range(s) == {s[i] : i \in DOMAIN s}

IsSpace(c) == c \in {" ", "\t", "\n", "\r"}
IsDigit(c) == c \in Digits
IsAlpha(c) == c \in Range(LowerLetters) \cup Range(UpperLetters)

\* str.lower() on one character
LowerChar(c) ==
    IF \E i \in DOMAIN UpperLetters : UpperLetters[i] = c
    THEN LowerLetters[CHOOSE i \in DOMAIN UpperLetters : UpperLetters[i] = c]
    ELSE c

Lower(s) == [i \in DOMAIN s |-> LowerChar(s[i])]

\* s[i-1:] in Python terms: the suffix of s that starts at index i (1-based)
From(s, i) == IF i > Len(s) THEN <<>> ELSE SubSeq(s, i, Len(s))

\* the first index >= i of s whose character is not in the class
RECURSIVE SkipSpaces(_, _)
SkipSpaces(s, i) ==
    IF i <= Len(s) /\ IsSpace(s[i]) THEN SkipSpaces(s, i + 1) ELSE i

RECURSIVE SkipDigits(_, _)
SkipDigits(s, i) ==
    IF i <= Len(s) /\ IsDigit(s[i]) THEN SkipDigits(s, i + 1) ELSE i

\* str.rstrip(), str.lstrip(), str.strip()
RECURSIVE RStrip(_)
RStrip(s) ==
    IF s # <<>> /\ IsSpace(s[Len(s)]) THEN RStrip(SubSeq(s, 1, Len(s) - 1))
    ELSE s

LStrip(s) == From(s, SkipSpaces(s, 1))

Strip(s) == RStrip(LStrip(s))

\* str.endswith(suffix) for a one-character suffix
EndsWith(s, c) == s # <<>> /\ s[Len(s)] = c

\* str.split(sep) for a one-character separator: always at least one piece
RECURSIVE SplitAt(_, _, _, _)
SplitAt(s, i, cur, sep) ==
    IF i > Len(s) THEN <<cur>>
    ELSE IF s[i] = sep THEN <<cur>> \o SplitAt(s, i + 1, <<>>, sep)
    ELSE SplitAt(s, i + 1, Append(cur, s[i]), sep)

Split(s, sep) == SplitAt(s, 1, <<>>, sep)

\* sep.join(pieces)
RECURSIVE Join(_, _)
Join(pieces, sep) ==
    IF pieces = <<>> THEN <<>>
    ELSE IF Len(pieces) = 1 THEN pieces[1]
    ELSE pieces[1] \o <<sep>> \o Join(Tail(pieces), sep)

\* text.split()[0] if text.split() else '': the first whitespace-free word
RECURSIVE WordEnd(_, _)
WordEnd(s, i) ==
    IF i <= Len(s) /\ ~IsSpace(s[i]) THEN WordEnd(s, i + 1) ELSE i

FirstWord(s) ==
    LET b == SkipSpaces(s, 1)
    IN  IF b > Len(s) THEN <<>> ELSE SubSeq(s, b, WordEnd(s, b) - 1)

\* ------------------------------------------------------------------------
\* QuestionParser (quiz/utils.py)
\* ------------------------------------------------------------------------
question_endings == {"?", ".", ":"}
correct_marker == "*"

question_words ==
    { <<"w","h","a","t">>, <<"w","h","i","c","h">>, <<"w","h","e","r","e">>,
      <<"w","h","e","n">>, <<"w","h","o">>, <<"w","h","o","m">>,
      <<"w","h","o","s","e">>, <<"w","h","y">>, <<"h","o","w">>, <<"i","s">>,
      <<"a","r","e">>, <<"w","a","s">>, <<"w","e","r","e">>, <<"d","o">>,
      <<"d","o","e","s">>, <<"d","i","d">>, <<"c","a","n">>,
      <<"c","o","u","l","d">>, <<"w","i","l","l">>, <<"w","o","u","l","d">>,
      <<"s","h","o","u","l","d">> }

\* the end (first index after the match) of the numbering prefix
\*   ^(\d+\.?\s*|\(?[a-zA-Z]\)\.?\s*|Q\d+\.?\s*|Question\s+\d+\.?\s*)
\* at the start of the line, or 1 when no alternative matches
OptDot(s, i) == IF i <= Len(s) /\ s[i] = "." THEN i + 1 ELSE i

HasPrefix(s, p) == Len(s) >= Len(p) /\ SubSeq(s, 1, Len(p)) = p

NumberingEnd(s) ==
    LET n == Len(s)
        \* \d+\.?\s*
        a1 == SkipDigits(s, 1)
        \* \(?[a-zA-Z]\)\.?\s*
        p2 == IF n >= 1 /\ s[1] = "(" THEN 2 ELSE 1
        ok2 == p2 + 1 <= n /\ IsAlpha(s[p2]) /\ s[p2 + 1] = ")"
        \* Q\d+\.?\s*
        a3 == SkipDigits(s, 2)
        ok3 == n >= 1 /\ s[1] = "Q" /\ a3 > 2
        \* Question\s+\d+\.?\s*
        w4 == SkipSpaces(s, 9)
        a4 == SkipDigits(s, w4)
        ok4 == HasPrefix(s, <<"Q","u","e","s","t","i","o","n">>)
                 /\ w4 > 9 /\ a4 > w4
    IN  IF a1 > 1 THEN SkipSpaces(s, OptDot(s, a1))
        ELSE IF ok2 THEN SkipSpaces(s, OptDot(s, p2 + 2))
        ELSE IF ok3 THEN SkipSpaces(s, OptDot(s, a3))
        ELSE IF ok4 THEN SkipSpaces(s, OptDot(s, a4))
        ELSE 1

\* line.strip() followed by the re.sub that removes the numbering
CleanLine(line) ==
    LET s == Strip(line) IN From(s, NumberingEnd(s))

\* the cleaned, non-empty lines of the text, in order
RECURSIVE CleanLines(_)
CleanLines(lines) ==
    IF lines = <<>> THEN <<>>
    ELSE LET c == CleanLine(Head(lines))
         IN  (IF c # <<>> THEN <<c>> ELSE <<>>) \o CleanLines(Tail(lines))

_is_question(text) ==
    IF Len(text) < 5 THEN FALSE
    ELSE LET ends_with_marker == \E e \in question_endings : EndsWith(text, e)
             first_word == Lower(FirstWord(text))
             starts_with_question == first_word \in question_words
         IN  ends_with_marker \/ (starts_with_question /\ Len(text) > 10)

\* ^[\(\[]?[a-dA-D][\)\]\.:\-\s]
OptionLetters == {"a","b","c","d","A","B","C","D"}
IsOptionSep(c) == c \in {")", "]", ".", ":", "-"} \/ IsSpace(c)

\* the index of the option letter when the option pattern matches, else 0
OptionLetterAt(s) ==
    LET p == IF Len(s) >= 1 /\ s[1] \in {"(", "["} THEN 2 ELSE 1
    IN  IF p + 1 <= Len(s) /\ s[p] \in OptionLetters /\ IsOptionSep(s[p + 1])
        THEN p
        ELSE 0

_is_option(text) ==
    IF Len(text) < 1 THEN FALSE
    ELSE LET is_short == Len(text) < 100
             not_question == ~_is_question(text)
         IN  OptionLetterAt(text) # 0 \/ (is_short /\ not_question)

RECURSIVE SkipOptionSeps(_, _)
SkipOptionSeps(s, i) ==
    IF i <= Len(s) /\ IsOptionSep(s[i]) THEN SkipOptionSeps(s, i + 1) ELSE i

\* re.sub(r'^[\(\[]?[a-dA-D][\)\]\.:\-\s]+', '', text)
RemoveOptionPrefix(s) ==
    LET p == OptionLetterAt(s)
    IN  IF p = 0 THEN s ELSE From(s, SkipOptionSeps(s, p + 1))

_parse_option(text) ==
    LET is_correct == EndsWith(RStrip(text), correct_marker)
        t1 == IF is_correct
              THEN Strip(SubSeq(RStrip(text), 1, Len(RStrip(text)) - 1))
              ELSE text
    IN  [text |-> Strip(RemoveOptionPrefix(t1)), is_correct |-> is_correct]

\* sum(1 for opt in options if opt['is_correct'])
RECURSIVE CountCorrect(_)
CountCorrect(options) ==
    IF options = <<>> THEN 0
    ELSE (IF Head(options).is_correct THEN 1 ELSE 0)
           + CountCorrect(Tail(options))

\* [opt for opt in options if opt['is_correct'] = flag]
RECURSIVE FilterOptions(_, _)
FilterOptions(options, flag) ==
    IF options = <<>> THEN <<>>
    ELSE (IF Head(options).is_correct = flag THEN <<Head(options)>> ELSE <<>>)
           \o FilterOptions(Tail(options), flag)

\* the loop keeping the last correct answer instead of the first
RECURSIVE KeepLastCorrect(_, _)
KeepLastCorrect(options, found_correct) ==
    IF options = <<>> THEN <<>>
    ELSE LET opt == Head(options)
         IN  IF opt.is_correct /\ CountCorrect(Tail(options)) = 0
             THEN options
             ELSE <<[opt EXCEPT !.is_correct = FALSE]>>
                    \o KeepLastCorrect(Tail(options), found_correct)

\* the loop that keeps only the first correct answer
RECURSIVE KeepFirstCorrect(_, _)
KeepFirstCorrect(options, found_correct) ==
    IF options = <<>> THEN <<>>
    ELSE LET opt == Head(options)
         IN  IF opt.is_correct /\ ~found_correct
             THEN <<opt>> \o KeepFirstCorrect(Tail(options), TRUE)
             ELSE <<[opt EXCEPT !.is_correct = FALSE]>>
                    \o KeepFirstCorrect(Tail(options), found_correct)

\* the loop that appends placeholder options 'Option N' up to four
RECURSIVE PadOptions(_)
PadOptions(options) ==
    IF Len(options) < 4
    THEN PadOptions(Append(options,
           [text |-> <<"O","p","t","i","o","n"," ",
                       DigitChar[Len(options) + 1]>>,
            is_correct |-> FALSE]))
    ELSE options

FirstN(s, n) == SubSeq(s, 1, IF Len(s) < n THEN Len(s) ELSE n)

\* the repair without its final check of the number of correct options
_fix_question_structure_unchecked(question_text, options) ==
    LET marked == IF CountCorrect(options) > 1
                  THEN KeepFirstCorrect(options, FALSE) ELSE options
    IN  <<[question |-> question_text,
           options |-> IF Len(marked) < 4 THEN PadOptions(marked)
                       ELSE FirstN(marked, 4)]>>

\* the repair with the trimming branch taken from four options on: the
\* correct option is moved to the front
_fix_question_structure_reordering(question_text, options) ==
    LET count0 == CountCorrect(options)
        marked == IF count0 = 0 /\ Len(options) >= 4
                  THEN [options EXCEPT ![1].is_correct = TRUE]
                  ELSE IF count0 > 1 THEN KeepFirstCorrect(options, FALSE)
                  ELSE options
        sized == IF Len(marked) < 4 THEN PadOptions(marked)
                 ELSE FirstN(FilterOptions(marked, TRUE), 1)
                        \o FirstN(FilterOptions(marked, FALSE), 3)
    IN  IF Len(sized) = 4 /\ CountCorrect(sized) = 1
        THEN <<[question |-> question_text, options |-> sized]>>
        ELSE <<>>

\* Optional[Dict]: the empty sequence is None, else one question record
_fix_question_structure(question_text, options) ==
    LET count0 == CountCorrect(options)
        \* step 1: find or assign the correct answer
        marked == IF count0 = 0 /\ Len(options) >= 4
                  THEN [options EXCEPT ![1].is_correct = TRUE]
                  ELSE IF count0 > 1 THEN KeepFirstCorrect(options, FALSE)
                  ELSE options
        correct_count == IF (count0 = 0 /\ Len(options) >= 4) \/ count0 > 1
                         THEN 1 ELSE count0
        \* step 2: wrong number of options
        correct_options == FilterOptions(marked, TRUE)
        other_options == FilterOptions(marked, FALSE)
        sized == IF Len(marked) < 4 THEN PadOptions(marked)
                 ELSE IF Len(marked) > 4
                 THEN IF correct_options # <<>>
                      THEN FirstN(correct_options, 1) \o FirstN(other_options, 3)
                      ELSE FirstN(marked, 4)
                 ELSE marked
    IN  IF Len(sized) = 4 /\ correct_count = 1
        THEN <<[question |-> question_text, options |-> sized]>>
        ELSE <<>>

\* the inner loop that stops at every question-like line
RECURSIVE CollectOptionsEager(_, _, _)
CollectOptionsEager(cleaned_lines, i, options) ==
    IF i <= Len(cleaned_lines) /\ Len(options) < 4
    THEN LET line == cleaned_lines[i]
         IN  IF _is_question(line)
             THEN [i |-> i, options |-> options]
             ELSE LET parsed == _parse_option(line)
                  IN  CollectOptionsEager(cleaned_lines, i + 1,
                        IF _is_option(line) /\ parsed.text # <<>>
                        THEN Append(options, parsed)
                        ELSE options)
    ELSE [i |-> i, options |-> options]

\* the inner loop that appends an option whatever its text
RECURSIVE CollectOptionsAnyText(_, _, _)
CollectOptionsAnyText(cleaned_lines, i, options) ==
    IF i <= Len(cleaned_lines) /\ Len(options) < 4
    THEN LET line == cleaned_lines[i]
         IN  IF _is_question(line) /\ Len(options) > 0
             THEN [i |-> i, options |-> options]
             ELSE CollectOptionsAnyText(cleaned_lines, i + 1,
                    IF _is_option(line)
                    THEN Append(options, _parse_option(line))
                    ELSE options)
    ELSE [i |-> i, options |-> options]

\* the inner while loop of _parse_questions: collects the options that
\* follow a question line; returns the options and the index reached
RECURSIVE CollectOptions(_, _, _)
CollectOptions(cleaned_lines, i, options) ==
    IF i <= Len(cleaned_lines) /\ Len(options) < 4
    THEN LET line == cleaned_lines[i]
         IN  IF _is_question(line) /\ Len(options) > 0
             THEN [i |-> i, options |-> options]
             ELSE LET parsed == _parse_option(line)
                  IN  CollectOptions(cleaned_lines, i + 1,
                        IF _is_option(line) /\ parsed.text # <<>>
                        THEN Append(options, parsed)
                        ELSE options)
    ELSE [i |-> i, options |-> options]

\* the outer while loop of _parse_questions, from index i on
RECURSIVE ParseFrom(_, _)
ParseFrom(cleaned_lines, i) ==
    IF i > Len(cleaned_lines) THEN <<>>
    ELSE IF _is_question(cleaned_lines[i])
    THEN LET question_text == cleaned_lines[i]
             got == CollectOptions(cleaned_lines, i + 1, <<>>)
             emitted ==
                 IF Len(got.options) = 4 /\ CountCorrect(got.options) = 1
                 THEN <<[question |-> question_text, options |-> got.options]>>
                 ELSE IF Len(got.options) > 0
                 THEN _fix_question_structure(question_text, got.options)
                 ELSE <<>>
         IN  emitted \o ParseFrom(cleaned_lines, got.i)
    ELSE ParseFrom(cleaned_lines, i + 1)

_parse_questions(text) == ParseFrom(CleanLines(Split(text, "\n")), 1)

\* ------------------------------------------------------------------------
\* Reading a document (quiz/utils.py)
\* ------------------------------------------------------------------------
RECURSIVE StrippedNonEmpty(_)
StrippedNonEmpty(units) ==
    IF units = <<>> THEN <<>>
    ELSE (IF Strip(Head(units)) # <<>> THEN <<Strip(Head(units))>> ELSE <<>>)
           \o StrippedNonEmpty(Tail(units))

RECURSIVE NonEmpty(_)
NonEmpty(units) ==
    IF units = <<>> THEN <<>>
    ELSE (IF Head(units) # <<>> THEN <<Head(units)>> ELSE <<>>)
           \o NonEmpty(Tail(units))

\* paragraphs first, then table cells, each stripped, empty ones dropped
_extract_text_from_docx(d) ==
    Join(StrippedNonEmpty(d.paras) \o StrippedNonEmpty(d.cells), "\n")

\* the text of the pages that have text, joined by newlines
PdfText(d) == Join(NonEmpty(d.paras \o d.cells), "\n")

\* the diagnostic both caller-facing functions share
NoValidQuestions == "No valid questions found"

Returned(v) == [kind |-> "return", value |-> v, msg |-> <<>>]
Raised(m) == [kind |-> "raise", value |-> <<>>, msg |-> m]

\* parse_from_docx: any failure is re-raised as "Error parsing DOCX: ..."
parse_from_docx(d, env) ==
    IF ~env.readable
    THEN Raised(<<"Error parsing DOCX: ", "cannot open document">>)
    ELSE Returned(_parse_questions(_extract_text_from_docx(d)))

parse_from_pdf(d, env) ==
    IF ~env.readable
    THEN Raised(<<"Error parsing PDF: ", "cannot open document">>)
    ELSE Returned(_parse_questions(PdfText(d)))

\* the caller-facing function without its test for an empty result
parse_question_from_docx_unguarded(d, env) ==
    LET inner == IF ~env.exists THEN Raised(<<"File not found: ">>)
                 ELSE parse_from_docx(d, env)
    IN  IF inner.kind = "raise"
        THEN Raised(<<"Error parsing Word document: ">> \o inner.msg)
        ELSE inner

parse_question_from_docx(d, env) ==
    LET inner ==
          IF ~env.exists THEN Raised(<<"File not found: ">>)
          ELSE LET questions == parse_from_docx(d, env)
               IN  IF questions.kind = "raise" THEN questions
                   ELSE IF questions.value = <<>>
                   THEN Raised(<<NoValidQuestions,
                                " in the document. Please check the format.">>)
                   ELSE questions
    IN  IF inner.kind = "raise"
        THEN Raised(<<"Error parsing Word document: ">> \o inner.msg)
        ELSE inner

parse_question_from_pdf(d, env) ==
    LET inner ==
          IF ~env.exists THEN Raised(<<"File not found: ">>)
          ELSE LET questions == parse_from_pdf(d, env)
               IN  IF questions.kind = "raise" THEN questions
                   ELSE IF questions.value = <<>>
                   THEN Raised(<<NoValidQuestions,
                                " in the PDF. Please check the format.">>)
                   ELSE questions
    IN  IF inner.kind = "raise"
        THEN Raised(<<"Error parsing PDF: ">> \o inner.msg)
        ELSE inner

\* ------------------------------------------------------------------------
\* Inputs of the parser
\* ------------------------------------------------------------------------
LineQuestion == <<"W","h","a","t"," ","i","s"," ","2","+","2","?">>
LineThree == <<"3">>
LineFourStar == <<"4","*">>
LineFive == <<"5">>
LineSix == <<"6">>
LineUp == <<" ","u","p">>
LineNoStar == <<"B","."," ","n","o","*">>
LineOk == <<"1","."," ","a",")"," ","o","k">>
LineIs == <<"I","s"," ","i","t"," ","u","p"," ","o","r"," ","n","o">>
\* an option line that holds a letter and the correct marker but no text
LineStar == <<"A","."," ","*">>

LinePool == {LineQuestion, LineFourStar, LineUp, LineNoStar, LineOk, LineIs}

\* the scenario document: one question and four numeric options
ScenarioLines == <<LineQuestion, LineThree, LineFourStar, LineFive, LineSix>>

SeqsUpTo(S, n) == UNION {[1..k -> S] : k \in 0..n}

Docs ==
    {[paras |-> ps, cells |-> <<>>] : ps \in SeqsUpTo(LinePool, MaxLines)}
    \cup {[paras |-> <<LineQuestion>>, cells |-> cs] :
             cs \in SeqsUpTo(LinePool, 2)}
    \cup {[paras |-> ScenarioLines, cells |-> <<>>]}
    \cup {[paras |-> <<LineQuestion, LineStar>> \o ps, cells |-> <<>>] :
             ps \in SeqsUpTo({LineNoStar, LineUp}, 2)}

NoOut == [kind |-> "none", value |-> <<>>, msg |-> <<>>]
NoEnv == [exists |-> TRUE, readable |-> TRUE]

\* ------------------------------------------------------------------------
\* Generated text and JSON (descriptive_evaluation.py)
\*
\* Generated text is a sequence of tokens: the structural characters
\* { } [ ] : ,  the code fence (three backquotes), the word json, white space, quoted string
\* literals, number literals, null, and words of prose.
\* ------------------------------------------------------------------------
\* the token for a code fence (three backquotes)
Fence == "<fence>"
WsTokens == {" ", "\n"}

\* the contents of the string literals that occur in generated text
StringContents ==
    { "a", "b", "p1", "p2", "d1", "k1", "e1", "c1", "seg", "high",
      "essential_points", "supporting_points", "required_keywords",
      "weights", "essential", "supporting", "keywords", "clarity", "grammar",
      "covered_essential", "covered_supporting", "keywords_found",
      "missing_points", "factual_errors", "irrelevant_segments",
      "fluff_percent", "grammar_score", "clarity_score", "relevance_score",
      "contradictions" }

Quote(s) == "\"" \o s \o "\""

IsStringToken(t) == \E s \in StringContents : Quote(s) = t
Unquote(t) == CHOOSE s \in StringContents : Quote(s) = t

\* the number literals that occur in generated text, with ten times their
\* value (all arithmetic on generated numbers is done in tenths)
NumVal ==
    [ t \in {"0", "1", "0.10", "0.20", "0.40", "0.90", "5.0", "7.0", "7.5",
             "8", "8.0", "8.5", "9.5", "25", "50", "100", "150", "-20"} |->
      CASE t = "0" -> 0      [] t = "1" -> 10     [] t = "0.10" -> 1
        [] t = "0.20" -> 2   [] t = "0.40" -> 4   [] t = "0.90" -> 9
        [] t = "5.0" -> 50   [] t = "7.0" -> 70   [] t = "7.5" -> 75
        [] t = "8" -> 80     [] t = "8.0" -> 80   [] t = "8.5" -> 85
        [] t = "9.5" -> 95   [] t = "25" -> 250   [] t = "50" -> 500
        [] t = "100" -> 1000 [] t = "150" -> 1500 [] t = "-20" -> -200 ]

\* JSON values: every value is a record of the same shape
JNull == [t |-> "null", n |-> 0, s |-> "", kids |-> <<>>]
JNum(n) == [t |-> "num", n |-> n, s |-> "", kids |-> <<>>]
\* True and False
JBool(b) == [t |-> "bool", n |-> IF b THEN 1 ELSE 0, s |-> "", kids |-> <<>>]
JStr(s) == [t |-> "str", n |-> 0, s |-> s, kids |-> <<>>]
\* a list of values
JArr(items) ==
    [t |-> "arr", n |-> 0, s |-> "",
     kids |-> [i \in DOMAIN items |-> [k |-> "", v |-> items[i]]]]
\* a dict, as the sequence of its [k, v] members
JObj(members) == [t |-> "obj", n |-> 0, s |-> "", kids |-> members]

\* the least member of a non-empty set of indices
Least(S) == CHOOSE k \in S : \A o \in S : k <= o

\* \s* from token i: the first index >= i that holds no whitespace (or
\* Len + 1)
SkipWs(ts, i) ==
    LET stops == {k \in i..Len(ts) : ts[k] \notin WsTokens}
    IN  IF i > Len(ts) THEN i
        ELSE IF stops = {} THEN Len(ts) + 1
        ELSE Least(stops)

ParseFail == [ok |-> FALSE, v |-> JNull, i |-> 0]
ParseOk(v, i) == [ok |-> TRUE, v |-> v, i |-> i]

\* json.loads, by recursive descent: the value that starts at token i
RECURSIVE ParseValue(_, _)
RECURSIVE ParseMembers(_, _, _)
RECURSIVE ParseItems(_, _, _)

ParseValue(ts, i) ==
    LET j == SkipWs(ts, i)
    IN  IF j > Len(ts) THEN ParseFail
        ELSE IF ts[j] = "{"
        THEN LET k == SkipWs(ts, j + 1)
             IN  IF k <= Len(ts) /\ ts[k] = "}" THEN ParseOk(JObj(<<>>), k + 1)
                 ELSE ParseMembers(ts, k, <<>>)
        ELSE IF ts[j] = "["
        THEN LET k == SkipWs(ts, j + 1)
             IN  IF k <= Len(ts) /\ ts[k] = "]" THEN ParseOk(JArr(<<>>), k + 1)
                 ELSE ParseItems(ts, k, <<>>)
        ELSE IF IsStringToken(ts[j]) THEN ParseOk(JStr(Unquote(ts[j])), j + 1)
        ELSE IF ts[j] \in DOMAIN NumVal THEN ParseOk(JNum(NumVal[ts[j]]), j + 1)
        ELSE IF ts[j] = "null" THEN ParseOk(JNull, j + 1)
        ELSE ParseFail

\* the members of an object from the key at token i on, up to its "}"
ParseMembers(ts, i, acc) ==
    LET c == SkipWs(ts, i + 1)
    IN  IF i > Len(ts) \/ ~IsStringToken(ts[i]) THEN ParseFail
        ELSE IF c > Len(ts) \/ ts[c] # ":" THEN ParseFail
        ELSE LET r == ParseValue(ts, c + 1)
                 e == SkipWs(ts, r.i)
                 key == Unquote(ts[i])
                 \* a repeated key keeps its place and takes the later value
                 acc2 == IF \E m \in DOMAIN acc : acc[m].k = key
                         THEN [m \in DOMAIN acc |->
                                 IF acc[m].k = key THEN [k |-> key, v |-> r.v]
                                 ELSE acc[m]]
                         ELSE Append(acc, [k |-> key, v |-> r.v])
             IN  IF ~r.ok \/ e > Len(ts) THEN ParseFail
                 ELSE IF ts[e] = "}" THEN ParseOk(JObj(acc2), e + 1)
                 ELSE IF ts[e] = "," THEN ParseMembers(ts, SkipWs(ts, e + 1), acc2)
                 ELSE ParseFail

\* the items of an array from token i on, up to its "]"
ParseItems(ts, i, acc) ==
    LET r == ParseValue(ts, i)
        e == SkipWs(ts, r.i)
        acc2 == Append(acc, r.v)
    IN  IF ~r.ok \/ e > Len(ts) THEN ParseFail
        ELSE IF ts[e] = "]" THEN ParseOk(JArr(acc2), e + 1)
        ELSE IF ts[e] = "," THEN ParseItems(ts, e + 1, acc2)
        ELSE ParseFail

\* json.loads(text.strip()): ok = FALSE stands for json.JSONDecodeError
json_loads(ts) ==
    LET r == ParseValue(ts, 1)
    IN  IF r.ok /\ SkipWs(ts, r.i) > Len(ts)
        THEN [ok |-> TRUE, v |-> r.v]
        ELSE [ok |-> FALSE, v |-> JNull]

\* token i belongs to the whitespace that follows token f
InWsAfter(ts, f, i) == f < i /\ \A k \in (f + 1)..i : ts[k] \in WsTokens

\* ts without the tokens at the indices in gone
Without(ts, gone) ==
    LET tagged == [i \in DOMAIN ts |-> <<i, ts[i]>>]
        kept == SelectSeq(tagged, LAMBDA e : e[1] \notin gone)
    IN  [n \in DOMAIN kept |-> kept[n][2]]

\* re.sub of the pattern: fence, json, \s*  (every match is removed)
RemoveJsonFences(ts) ==
    LET opens == {f \in DOMAIN ts :
                    ts[f] = Fence /\ f < Len(ts) /\ ts[f + 1] = "json"}
    IN  Without(ts, {i \in DOMAIN ts :
                       \/ i \in opens
                       \/ i - 1 \in opens
                       \/ \E f \in opens : InWsAfter(ts, f + 1, i)})

\* re.sub of the pattern: fence, \s*  (every match is removed)
RemoveFences(ts) ==
    LET fences == {f \in DOMAIN ts : ts[f] = Fence}
    IN  Without(ts, {i \in DOMAIN ts :
                       i \in fences \/ \E f \in fences : InWsAfter(ts, f, i)})

\* a run of non-brace text: the first index >= i that holds a brace (or
\* Len + 1)
NextBrace(ts, i) ==
    LET stops == {k \in i..Len(ts) : ts[k] \in {"{", "}"}}
    IN  IF i > Len(ts) THEN i
        ELSE IF stops = {} THEN Len(ts) + 1
        ELSE Least(stops)

\* the repeated group (an inner pair of braces without braces inside, then
\* non-brace text) and the closing brace, from a brace position q: the index
\* of the closing brace of the match, or 0 when the pattern cannot match
RECURSIVE MatchGroups(_, _)
MatchGroups(ts, q) ==
    IF q > Len(ts) THEN 0
    ELSE IF ts[q] = "}" THEN q
    ELSE LET r == NextBrace(ts, q + 1)
         IN  IF r <= Len(ts) /\ ts[r] = "}"
             THEN MatchGroups(ts, NextBrace(ts, r + 1))
             ELSE 0

\* the whole pattern of the re.search (an opening brace, non-brace text, the
\* repeated group, a closing brace) matched at position p
MatchEnd(ts, p) ==
    IF ts[p] # "{" THEN 0 ELSE MatchGroups(ts, NextBrace(ts, p + 1))

\* re.search: the leftmost position where the pattern matches
json_match(ts) ==
    LET starts == {p \in DOMAIN ts : MatchEnd(ts, p) # 0}
    IN  IF starts = {} THEN <<>>
        ELSE LET p == Least(starts)
             IN  <<SubSeq(ts, p, MatchEnd(ts, p))>>

\* the extractor with a brace-matching scan would keep the whole text here
_extract_json(text) ==
    LET t1 == RemoveJsonFences(text)
        t2 == RemoveFences(t1)
        m == json_match(t2)
    IN  json_loads(IF m # <<>> THEN m[1] ELSE t2)

\* json.dumps of a value, as tokens
RECURSIVE Serialize(_)
RECURSIVE SerializeKids(_, _)
Serialize(v) ==
    CASE v.t = "obj" -> <<"{">> \o SerializeKids(v.kids, TRUE) \o <<"}">>
      [] v.t = "arr" -> <<"[">> \o SerializeKids(v.kids, FALSE) \o <<"]">>
      [] v.t = "str" -> <<Quote(v.s)>>
      [] v.t = "num" -> <<CHOOSE t \in DOMAIN NumVal : NumVal[t] = v.n>>
      [] v.t = "bool" -> <<IF v.n = 1 THEN "true" ELSE "false">>
      [] OTHER -> <<"null">>

SerializeKids(kids, keyed) ==
    IF kids = <<>> THEN <<>>
    ELSE (IF keyed THEN <<Quote(kids[1].k), ":", " ">> ELSE <<>>)
           \o Serialize(kids[1].v)
           \o (IF Len(kids) > 1 THEN <<",", " ">> ELSE <<>>)
           \o SerializeKids(Tail(kids), keyed)

\* ------------------------------------------------------------------------
\* Inputs of the JSON extractor
\* ------------------------------------------------------------------------
\* objects whose braces nest d deep
RECURSIVE ObjectsOfDepth(_)
ObjectsOfDepth(d) ==
    IF d = 1
    THEN { JObj(<<>>),
           JObj(<<[k |-> "a", v |-> JNum(10)]>>),
           JObj(<<[k |-> "a", v |-> JArr(<<JStr("p1")>>)],
                  [k |-> "b", v |-> JNum(0)]>>) }
    ELSE UNION { { JObj(<<[k |-> "a", v |-> o]>>),
                   JObj(<<[k |-> "a", v |-> o], [k |-> "b", v |-> JNum(10)]>>),
                   JObj(<<[k |-> "b", v |-> JArr(<<>>)], [k |-> "a", v |-> o]>>) }
                 : o \in ObjectsOfDepth(d - 1) }

EmbeddedObjects == UNION {ObjectsOfDepth(d) : d \in 1..MaxDepth}

Prefixes ==
    { <<>>,
      <<Fence, "json", "\n">>,
      <<Fence, "\n">>,
      <<"Here", " ", "is", " ", "the", " ", "result", ":", "\n">>,
      <<"Using", " ", "{", "}", " ", "notation", ":", " ">> }

Suffixes ==
    { <<>>, <<"\n", Fence>>, <<"\n", "Done", " ", "{", "ok", "}">> }

\* ------------------------------------------------------------------------
\* Python values read out of parsed JSON
\* ------------------------------------------------------------------------
\* key in d, for a dict d
Has(d, key) == \E i \in DOMAIN d.kids : d.kids[i].k = key

\* d.get(key, default), for a dict d
Get(d, key, default) ==
    IF Has(d, key)
    THEN d.kids[CHOOSE i \in DOMAIN d.kids : d.kids[i].k = key].v
    ELSE default

\* d.setdefault(key, default), for a dict d
SetDefault(d, key, default) ==
    IF Has(d, key) THEN d
    ELSE [d EXCEPT !.kids = Append(@, [k |-> key, v |-> default])]

\* len(v) is defined for lists, dicts and strings, a TypeError otherwise
HasLen(v) == v.t \in {"arr", "obj", "str"}
LenOf(v) == IF v.t = "str" THEN Len(v.s) ELSE Len(v.kids)
IsNum(v) == v.t = "num"

\* bool(v)
Truthy(v) ==
    CASE v.t = "null" -> FALSE
      [] v.t \in {"num", "bool"} -> v.n # 0
      [] v.t = "str" -> Len(v.s) # 0
      [] OTHER -> v.kids # <<>>

\* a list of n strings
Strings(n, name) == JArr([i \in 1..n |-> JStr(name)])

\* ------------------------------------------------------------------------
\* Arithmetic: scores are rationals; numbers read from generated text are
\* kept in tenths (n10), results are kept in hundredths, as round(x, 2)
\* leaves them
\* ------------------------------------------------------------------------
Max(a, b) == IF a >= b THEN a ELSE b
Min(a, b) == IF a <= b THEN a ELSE b

\* round(a / d) for a >= 0, d > 0: to the nearest integer, ties to even
\* (the arithmetic is exact; the representation error of binary floating
\* point, which decides ties in the source, is not modelled)
RoundDiv(a, d) ==
    LET q == a \div d
        r == a % d
    IN  IF 2 * r > d \/ (2 * r = d /\ q % 2 = 1) THEN q + 1 ELSE q

\* round(a * b / d) for a, b >= 0, d > 0 without forming a * b
RoundMulDiv(a, b, d) ==
    LET q == a \div d
        r == a % d
        q2 == (r * b) \div d
        r2 == (r * b) % d
        whole == q * b + q2
    IN  IF 2 * r2 > d \/ (2 * r2 = d /\ whole % 2 = 1) THEN whole + 1
        ELSE whole

\* round(a / d) for any sign of a
RoundSigned(a, d) == IF a >= 0 THEN RoundDiv(a, d) ELSE 0 - RoundDiv(0 - a, d)

\* ------------------------------------------------------------------------
\* MultiStageAnswerEvaluator._calculate_final_scores
\* ------------------------------------------------------------------------
WeightKeys == {"essential", "supporting", "keywords", "clarity", "grammar"}

\* the weights 0.40 / 0.20 / 0.20 / 0.10 / 0.10, in tenths
DefaultWeights ==
    JObj(<<[k |-> "essential", v |-> JNum(4)],
           [k |-> "supporting", v |-> JNum(2)],
           [k |-> "keywords", v |-> JNum(2)],
           [k |-> "clarity", v |-> JNum(1)],
           [k |-> "grammar", v |-> JNum(1)]>>)

\* weights = rubric.get('weights', {...})
weights_of(rubric) == Get(rubric, "weights", DefaultWeights)

\* the multipliers with the one of Average taken from Poor
ScoreMultiplierLow(rating) ==
    CASE rating = "Excellent" -> 100
      [] rating = "Good" -> 95
      [] OTHER -> 75

\* the multiplier of a rating, in hundredths
ScoreMultiplier(rating) ==
    CASE rating = "Excellent" -> 100
      [] rating = "Good" -> 95
      [] rating = "Average" -> 85
      [] OTHER -> 75

\* the bands with exclusive lower limits
RatingOfExclusive(adj, den) ==
    IF 10 * adj > 85 * den THEN "Excellent"
    ELSE IF adj > 7 * den THEN "Good"
    ELSE IF adj > 5 * den THEN "Average"
    ELSE "Poor"

\* the rating bands; adj / den is the adjusted score
RatingOf(adj, den) ==
    IF 10 * adj >= 85 * den THEN "Excellent"
    ELSE IF adj >= 7 * den THEN "Good"
    ELSE IF adj >= 5 * den THEN "Average"
    ELSE "Poor"

\* a sign slip: the contradiction penalty added instead of subtracted
AdjustedScoreSlip(content_score, fluff_penalty, contradiction_penalty, error_penalty) ==
    Max(0, content_score - fluff_penalty + contradiction_penalty
             - error_penalty)

\* adjusted_score = max(0, content_score - the three penalties)
AdjustedScore(content_score, fluff_penalty, contradiction_penalty, error_penalty) ==
    Max(0, content_score - fluff_penalty - contradiction_penalty
             - error_penalty)

\* the clamp without its upper limit
ClampScoreNoMin(raw, max_score) == Max(0, raw)

\* final_score = max(0, min(max_score, round(final_score, 2)))
ClampScore(raw, max_score) == Max(0, Min(100 * max_score, raw))

\* the lookups, len() calls, arithmetic and joins of _calculate_final_scores
\* and of its helpers _generate_feedback, _identify_strengths and
\* _generate_suggestions that raise on a value of the wrong type
ScoreRaises(analysis, contradictions, rubric) ==
    LET weights == weights_of(rubric)
        missing == Get(analysis, "missing_points", JArr(<<>>))
    IN  \/ rubric.t # "obj" \/ analysis.t # "obj"
        \/ weights.t # "obj"
        \/ \E k \in WeightKeys : ~Has(weights, k) \/ ~IsNum(Get(weights, k, JNull))
        \/ ~HasLen(Get(analysis, "covered_essential", JArr(<<>>)))
        \/ ~HasLen(Get(rubric, "essential_points", JArr(<<>>)))
        \/ ~HasLen(Get(analysis, "covered_supporting", JArr(<<>>)))
        \/ ~HasLen(Get(rubric, "supporting_points", JArr(<<>>)))
        \/ ~HasLen(Get(analysis, "keywords_found", JArr(<<>>)))
        \/ ~HasLen(Get(rubric, "required_keywords", JArr(<<>>)))
        \/ ~IsNum(Get(analysis, "clarity_score", JNum(70)))
        \/ ~IsNum(Get(analysis, "grammar_score", JNum(70)))
        \/ ~IsNum(Get(analysis, "fluff_percent", JNum(0)))
        \/ ~HasLen(contradictions)
        \/ ~HasLen(Get(analysis, "factual_errors", JArr(<<>>)))
        \/ ~IsNum(Get(analysis, "relevance_score", JNum(0)))
        \/ (Truthy(missing) /\ missing.t # "arr" /\ missing.t # "str")
        \/ (missing.t = "arr" /\
              \E i \in 1..Min(3, Len(missing.kids)) : missing.kids[i].v.t # "str")

\* the result dictionary; scores and percentages in hundredths
ScoreResult(analysis, contradictions, rubric, max_score) ==
    LET weights == weights_of(rubric)
        W(k) == Get(weights, k, JNull).n
        essential_count == LenOf(Get(analysis, "covered_essential", JArr(<<>>)))
        essential_total ==
            Max(LenOf(Get(rubric, "essential_points", Strings(1, "x"))), 1)
        supporting_count == LenOf(Get(analysis, "covered_supporting", JArr(<<>>)))
        supporting_total ==
            Max(LenOf(Get(rubric, "supporting_points", Strings(1, "x"))), 1)
        keywords_count == LenOf(Get(analysis, "keywords_found", JArr(<<>>)))
        keywords_total ==
            Max(LenOf(Get(rubric, "required_keywords", Strings(1, "x"))), 1)
        clarity_score == Get(analysis, "clarity_score", JNum(70)).n
        grammar_score == Get(analysis, "grammar_score", JNum(70)).n
        fluff_percent == Get(analysis, "fluff_percent", JNum(0)).n
        \* every score below is a numerator over den (1000 * the totals)
        tot == essential_total * supporting_total * keywords_total
        den == 1000 * tot
        content_score ==
              1000 * essential_count * W("essential")
                   * supporting_total * keywords_total
            + 1000 * supporting_count * W("supporting")
                   * essential_total * keywords_total
            + 1000 * keywords_count * W("keywords")
                   * essential_total * supporting_total
            + 10 * clarity_score * W("clarity") * tot
            + 10 * grammar_score * W("grammar") * tot
        fluff_penalty == 2 * fluff_percent * tot
        contradiction_penalty == LenOf(contradictions) * 1500 * tot
        error_penalty ==
            LenOf(Get(analysis, "factual_errors", JArr(<<>>))) * 1000 * tot
        adjusted_score ==
            AdjustedScore(content_score, fluff_penalty, contradiction_penalty,
                          error_penalty)
        rating == RatingOf(adjusted_score, den)
        \* (adjusted_score / 10) * max_score * score_multiplier, rounded
        raw == RoundMulDiv(adjusted_score,
                           max_score * (ScoreMultiplier(rating) \div 5),
                           2000 * tot)
        final_score == ClampScore(raw, max_score)
    IN  [ overall_score |-> final_score,
          max_score |-> max_score,
          percentage |-> RoundDiv(final_score * 100, max_score),
          rating |-> rating,
          detailed_breakdown |->
            [ essential_points_score |->
                  RoundDiv(1000 * essential_count, essential_total),
              supporting_points_score |->
                  RoundDiv(1000 * supporting_count, supporting_total),
              keywords_score |->
                  RoundDiv(1000 * keywords_count, keywords_total),
              clarity_score |-> 10 * clarity_score,
              grammar_score |-> 10 * grammar_score,
              content_score_raw |-> RoundSigned(content_score, 10 * tot),
              fluff_penalty |-> RoundSigned(fluff_penalty, 10 * tot),
              contradiction_penalty |-> RoundDiv(contradiction_penalty, 10 * tot),
              error_penalty |-> RoundDiv(error_penalty, 10 * tot) ],
          missing_details |-> Get(analysis, "missing_points", JArr(<<>>)),
          wrong_facts |-> Get(analysis, "factual_errors", JArr(<<>>)),
          contradictions |-> contradictions,
          fluff_percent |-> Get(analysis, "fluff_percent", JNum(0)),
          irrelevant_segments |->
              Get(analysis, "irrelevant_segments", JArr(<<>>)) ]

NoResult == [kind |-> "none", value |-> <<>>, msg |-> <<>>]

_calculate_final_scores(analysis, contradictions, rubric, max_score) ==
    IF ScoreRaises(analysis, contradictions, rubric)
    THEN Raised(<<"TypeError">>)
    ELSE Returned(ScoreResult(analysis, contradictions, rubric, max_score))

\* ------------------------------------------------------------------------
\* The stages of MultiStageAnswerEvaluator
\*
\* gen is the outcome of self.model.generate_content(...) together with
\* response.text: [raises |-> BOOLEAN, text |-> tokens]
\* ------------------------------------------------------------------------
GoldMinWords == 30

StageDone(v, called, how) ==
    [kind |-> "return", value |-> v, called |-> called, how |-> how]
StageRaised(called) ==
    [kind |-> "raise", value |-> JNull, called |-> called, how |-> "raised"]

\* the stage without the shortcut for a substantial reference answer
_generate_gold_standard_always(provided_answer, gen) ==
    IF gen.raises
    THEN StageDone(JStr("[Gold standard generation failed]"), TRUE, "default")
    ELSE StageDone(JStr("generated"), TRUE, "ok")

\* the gold answer is only passed on, so it is kept as the way it was made
_generate_gold_standard(provided_answer, gen) ==
    IF provided_answer.given /\ provided_answer.words >= GoldMinWords
    THEN StageDone(JStr("provided"), FALSE, "skipped")
    ELSE IF gen.raises
    THEN StageDone(JStr("[Gold standard generation failed]"), TRUE, "default")
    ELSE StageDone(JStr("generated"), TRUE, "ok")

RubricKeys == {"essential_points", "supporting_points", "required_keywords"}

DefaultRubric ==
    JObj(<<[k |-> "essential_points",
            v |-> JArr(<<JStr("Core concept explanation")>>)],
           [k |-> "supporting_points",
            v |-> JArr(<<JStr("Additional details")>>)],
           [k |-> "required_keywords", v |-> JArr(<<>>)],
           [k |-> "weights", v |-> DefaultWeights]>>)

\* k in result: keys of a dict, items of a list, substrings of a string (no
\* modelled string properly contains a rubric key); a TypeError otherwise
Contains(result, k) ==
    CASE result.t = "obj" -> Has(result, k)
      [] result.t = "arr" ->
           \E i \in DOMAIN result.kids : result.kids[i].v = JStr(k)
      [] result.t = "str" -> result.s = k
      [] OTHER -> FALSE

_generate_rubric(gen) ==
    LET result == _extract_json(gen.text)
    IN  IF gen.raises \/ ~result.ok
             \/ result.v.t \in {"num", "null"}
             \/ ~(\A k \in RubricKeys : Contains(result.v, k))
        THEN StageDone(DefaultRubric, TRUE, "default")
        ELSE StageDone(result.v, TRUE, "ok")

\* the analysis returned when the stage fails
FailedAnalysis ==
    JObj(<<[k |-> "covered_essential", v |-> JArr(<<>>)],
           [k |-> "covered_supporting", v |-> JArr(<<>>)],
           [k |-> "keywords_found", v |-> JArr(<<>>)],
           [k |-> "missing_points", v |-> JArr(<<JStr("Analysis failed")>>)],
           [k |-> "factual_errors", v |-> JArr(<<>>)],
           [k |-> "irrelevant_segments", v |-> JArr(<<>>)],
           [k |-> "fluff_percent", v |-> JNum(0)],
           [k |-> "grammar_score", v |-> JNum(50)],
           [k |-> "clarity_score", v |-> JNum(50)],
           [k |-> "relevance_score", v |-> JNum(50)]>>)

\* the defaults of the fields a parsed analysis lacks
AnalysisDefaults ==
    <<[k |-> "covered_essential", v |-> JArr(<<>>)],
      [k |-> "covered_supporting", v |-> JArr(<<>>)],
      [k |-> "keywords_found", v |-> JArr(<<>>)],
      [k |-> "missing_points", v |-> JArr(<<>>)],
      [k |-> "factual_errors", v |-> JArr(<<>>)],
      [k |-> "irrelevant_segments", v |-> JArr(<<>>)],
      [k |-> "fluff_percent", v |-> JNum(0)],
      [k |-> "grammar_score", v |-> JNum(70)],
      [k |-> "clarity_score", v |-> JNum(70)],
      [k |-> "relevance_score", v |-> JNum(70)]>>

\* for key, default in defaults.items(): result.setdefault(key, default)
RECURSIVE ApplyDefaults(_, _)
ApplyDefaults(result, defaults) ==
    IF defaults = <<>> THEN result
    ELSE ApplyDefaults(SetDefault(result, Head(defaults).k, Head(defaults).v),
                       Tail(defaults))

_analyze_student_answer(rubric, gen) ==
    LET result == _extract_json(gen.text)
    IN  \* rubric.get(...) before the try block
        IF rubric.t # "obj" THEN StageRaised(FALSE)
        ELSE IF gen.raises \/ ~result.ok \/ result.v.t # "obj"
        THEN StageDone(FailedAnalysis, TRUE, "default")
        ELSE StageDone(ApplyDefaults(result.v, AnalysisDefaults), TRUE, "ok")

\* a fail-closed stage: a failed check counts as one contradiction
_check_contradictions_failclosed(gen) ==
    LET result == _extract_json(gen.text)
    IN  IF gen.raises \/ ~result.ok \/ result.v.t # "obj"
        THEN StageDone(Strings(1, "check failed"), TRUE, "default")
        ELSE StageDone(Get(result.v, "contradictions", JArr(<<>>)), TRUE, "ok")

\* the stage without its try block: a failed call leaves the stage
_check_contradictions_uncaught(gen) ==
    LET result == _extract_json(gen.text)
    IN  IF gen.raises \/ ~result.ok \/ result.v.t # "obj"
        THEN StageRaised(TRUE)
        ELSE StageDone(Get(result.v, "contradictions", JArr(<<>>)), TRUE, "ok")

_check_contradictions(gen) ==
    LET result == _extract_json(gen.text)
    IN  IF gen.raises \/ ~result.ok \/ result.v.t # "obj"
        THEN StageDone(JArr(<<>>), TRUE, "default")
        ELSE StageDone(Get(result.v, "contradictions", JArr(<<>>)), TRUE, "ok")

_get_fallback_result(max_score, error_msg) ==
    [ overall_score |-> 50 * max_score,
      max_score |-> max_score,
      percentage |-> 5000,
      rating |-> "Average",
      detailed_breakdown |-> <<>>,
      missing_details |-> JArr(<<JStr("Evaluation system error")>>),
      wrong_facts |-> JArr(<<>>),
      contradictions |-> JArr(<<>>),
      fluff_percent |-> JNum(0),
      irrelevant_segments |-> JArr(<<>>),
      error |-> error_msg ]

\* the handler of evaluate_answer that lets the exception through
evaluate_answer_reraise(max_score, error_msg) == Raised(<<error_msg>>)

\* except Exception as e: return self._get_fallback_result(max_score, str(e))
evaluate_answer_except(max_score, error_msg) ==
    Returned(_get_fallback_result(max_score, error_msg))

\* the metadata evaluate_answer adds to the aggregator's result
WithMetadata(final_result, gold_answer, rubric) ==
    final_result @@ [ execution_time |-> "measured",
                      model_used |-> "model_name",
                      gold_answer |-> gold_answer,
                      rubric |-> rubric ]

\* ------------------------------------------------------------------------
\* Outcomes of the generation capability
\* ------------------------------------------------------------------------
GenRaises == [raises |-> TRUE, text |-> <<>>]
GenText(ts) == [raises |-> FALSE, text |-> ts]

Fenced(v) == <<Fence, "json", "\n">> \o Serialize(v) \o <<"\n", Fence>>
Prose == <<"Sorry", ",", " ", "I", " ", "cannot", " ", "help", ".">>
Intro == <<"Here", " ", "is", " ", "the", " ", "result", ":", "\n">>

Member(k, v) == [k |-> k, v |-> v]

RubricPoints ==
    <<Member("essential_points", Strings(2, "p1")),
      Member("supporting_points", Strings(1, "d1")),
      Member("required_keywords", Strings(1, "k1"))>>

GeneratedWeights ==
    JObj(<<Member("essential", JNum(9)), Member("supporting", JNum(1)),
           Member("keywords", JNum(0)), Member("clarity", JNum(0)),
           Member("grammar", JNum(0))>>)

RubricResponses ==
    { \* as the prompt asks, in a fence
      Fenced(JObj(RubricPoints \o <<Member("weights", DefaultWeights)>>)),
      \* without weights, after a line of prose
      Intro \o Serialize(JObj(RubricPoints)),
      \* with weights of the generator's own
      Fenced(JObj(RubricPoints \o <<Member("weights", GeneratedWeights)>>)),
      \* required_keywords is missing
      Serialize(JObj(SubSeq(RubricPoints, 1, 2))),
      \* no JSON at all
      Prose,
      \* weights without the five keys
      Serialize(JObj(RubricPoints \o <<Member("weights", JObj(<<>>))>>)),
      \* a list that holds the three field names
      Serialize(JArr(<<JStr("essential_points"), JStr("supporting_points"),
                       JStr("required_keywords")>>)),
      \* essential_points is null
      Serialize(JObj(<<Member("essential_points", JNull),
                       Member("supporting_points", Strings(1, "d1")),
                       Member("required_keywords", JArr(<<>>))>>)) }

AnalysisResponses ==
    { Fenced(JObj(<<Member("covered_essential", Strings(2, "p1")),
                    Member("covered_supporting", Strings(1, "d1")),
                    Member("keywords_found", Strings(1, "k1")),
                    Member("missing_points", JArr(<<>>)),
                    Member("factual_errors", JArr(<<>>)),
                    Member("irrelevant_segments", JArr(<<>>)),
                    Member("fluff_percent", JNum(0)),
                    Member("grammar_score", JNum(85)),
                    Member("clarity_score", JNum(95)),
                    Member("relevance_score", JNum(85))>>)),
      \* some fields only
      Intro \o Serialize(JObj(<<Member("covered_essential", Strings(1, "p1")),
                                Member("factual_errors", Strings(1, "e1")),
                                Member("fluff_percent", JNum(250))>>)),
      Prose,
      \* a score that is not a number
      Serialize(JObj(<<Member("clarity_score", JStr("high"))>>)),
      \* a list instead of an object
      Serialize(JArr(<<>>)) }

ContradictionResponses ==
    { Fenced(JObj(<<Member("contradictions", JArr(<<>>))>>)),
      Fenced(JObj(<<Member("contradictions", Strings(1, "c1"))>>)),
      Prose,
      Serialize(JObj(<<>>)),
      Serialize(JObj(<<Member("contradictions", JNull)>>)) }

GoldOutcomes == {GenRaises, GenText(<<"generated">>)}
RubricOutcomes == {GenRaises} \cup {GenText(t) : t \in RubricResponses}
AnalysisOutcomes == {GenRaises} \cup {GenText(t) : t \in AnalysisResponses}
ContradictionOutcomes ==
    {GenRaises} \cup {GenText(t) : t \in ContradictionResponses}

StandardAnswers ==
    { [given |-> FALSE, words |-> 0],
      [given |-> TRUE, words |-> GoldMinWords - 1],
      [given |-> TRUE, words |-> GoldMinWords],
      [given |-> TRUE, words |-> GoldMinWords + 1] }

MaxScores == {10, 100}

\* ------------------------------------------------------------------------
\* validate_questions
\*
\* a question is a dict with the keys 'question' and 'options', an option a
\* dict with the keys 'text' and 'is_correct'; an error message is kept as
\* the parts its f-string puts together
\* ------------------------------------------------------------------------
\* str(n) of a number below ten, as the f-strings of the messages format it
Str(n) == IF n = 0 THEN "0" ELSE DigitChar[n]

\* the messages validate_questions appends for question number idx
ErrorsOfQuestion(idx, q) ==
    LET options == Get(q, "options", JArr(<<>>))
        opt(j) == options.kids[j].v
        numbers == [j \in 1..LenOf(options) |-> j]
        correct_count ==
            Len(SelectSeq(numbers,
                          LAMBDA j : Truthy(Get(opt(j), "is_correct", JNull))))
        \* the numbers of the options without text, in order
        no_text ==
            SelectSeq(numbers, LAMBDA j : ~Truthy(Get(opt(j), "text", JNull)))
    IN  (IF ~Truthy(Get(q, "question", JNull))
         THEN <<<<"Question ", Str(idx), ": Missing question text">>>>
         ELSE <<>>)
        \o (IF LenOf(options) # 4
            THEN <<<<"Question ", Str(idx),
                     ": Must have exactly 4 options (found ",
                     Str(LenOf(options)), ")">>>>
            ELSE <<>>)
        \o (IF correct_count # 1
            THEN <<<<"Question ", Str(idx),
                     ": Must have exactly 1 correct answer (found ",
                     Str(correct_count), ")">>>>
            ELSE <<>>)
        \o [n \in DOMAIN no_text |->
              <<"Question ", Str(idx), ", Option ", Str(no_text[n]),
                ": Missing option text">>]

\* for idx, q in enumerate(questions, 1), from question number idx on
RECURSIVE ErrorsFrom(_, _)
ErrorsFrom(questions, idx) ==
    IF idx > Len(questions) THEN <<>>
    ELSE ErrorsOfQuestion(idx, questions[idx]) \o ErrorsFrom(questions, idx + 1)

\* a validator that returns at the first violation
validate_questions_first_only(questions) ==
    LET errors == FirstN(ErrorsFrom(questions, 1), 1)
    IN  [is_valid |-> Len(errors) = 0, errors |-> errors,
         questions |-> questions]

\* (is_valid, errors), with the list of questions as the call leaves it
validate_questions(questions) ==
    LET errors == ErrorsFrom(questions, 1)
    IN  [is_valid |-> Len(errors) = 0, errors |-> errors,
         questions |-> questions]

\* ------------------------------------------------------------------------
\* Inputs of the validator
\* ------------------------------------------------------------------------
Opt(text, is_correct) ==
    JObj(<<Member("text", JStr(text)), Member("is_correct", JBool(is_correct))>>)

Question(stem, options) ==
    JObj(<<Member("question", JStr(stem)), Member("options", JArr(options))>>)

QuestionPool ==
    { \* well formed
      Question("Q", <<Opt("a", FALSE), Opt("b", TRUE), Opt("c", FALSE),
                      Opt("d", FALSE)>>),
      \* empty stem
      Question("", <<Opt("a", TRUE), Opt("b", FALSE), Opt("c", FALSE),
                     Opt("d", FALSE)>>),
      \* three options, none correct
      Question("Q", <<Opt("a", FALSE), Opt("b", FALSE), Opt("c", FALSE)>>),
      \* five options, two correct
      Question("Q", <<Opt("a", TRUE), Opt("b", TRUE), Opt("c", FALSE),
                      Opt("d", FALSE), Opt("e", FALSE)>>),
      \* two options without text, one of them without any key
      Question("Q", <<Opt("a", TRUE), Opt("", FALSE), Opt("c", FALSE),
                      JObj(<<>>)>>),
      \* no key at all
      JObj(<<>>),
      \* a stem only
      JObj(<<Member("question", JStr("Q"))>>),
      \* an option without is_correct, the correct one without text
      Question("Q", <<JObj(<<Member("text", JStr("a"))>>), Opt("b", FALSE),
                      JObj(<<Member("is_correct", JBool(TRUE))>>),
                      Opt("d", FALSE)>>),
      \* every kind of violation at once
      Question("", <<Opt("", TRUE), Opt("", TRUE)>>) }

\* ------------------------------------------------------------------------
\* The components that take no part in a specification stay as they are
\* ------------------------------------------------------------------------
ValidateIdle ==
    /\ v_in = <<>>
    /\ v_out = [kind |-> "off", value |-> <<>>, msg |-> <<>>]

ParserIdle ==
    /\ doc = [paras |-> <<>>, cells |-> <<>>]
    /\ p_op = "off"
    /\ p_env = NoEnv
    /\ p_out = NoOut

JsonIdle ==
    /\ j_text = <<>>
    /\ j_obj = JNull
    /\ j_out = [kind |-> "off", ok |-> FALSE, v |-> JNull]

EvalIdle ==
    /\ e_pc = "off"
    /\ e_in = [standard_answer |-> [given |-> FALSE, words |-> 0],
               max_score |-> 100]
    /\ e_gold = JNull /\ e_rubric = JNull
    /\ e_analysis = JNull /\ e_contra = JNull
    /\ e_log = <<>>
    /\ e_out = NoResult

ScoreIdle ==
    /\ s_in = [analysis |-> JNull, contradictions |-> JNull,
               rubric |-> JNull, max_score |-> 100]
    /\ s_out = [kind |-> "off", value |-> <<>>, msg |-> <<>>]

RepairIdle ==
    /\ f_in = [question_text |-> <<>>, options |-> <<>>]
    /\ f_out = [kind |-> "off", value |-> <<>>, msg |-> <<>>]

ApiIdle ==
    /\ a_pc = "off"
    /\ a_max = 0
    /\ a_attempt = 0
    /\ a_log = <<>>
    /\ a_out = [kind |-> "off", value |-> <<>>, msg |-> <<>>]

AttemptIdle ==
    /\ t_profiles = <<>>
    /\ t_quiz = [is_active |-> FALSE, auto_evaluate |-> FALSE, questions |-> 0]
    /\ t_attempts = <<>>
    /\ t_hist = <<>>
    /\ t_resp = [code |-> "off", to |-> "", msg |-> ""]

UploadIdle ==
    /\ u_file = [parses |-> FALSE, questions |-> 0]
    /\ u_upload = [processed |-> FALSE, questions_imported |-> 0, error |-> FALSE]
    /\ u_req = <<>>
    /\ u_created = <<>>

\* ------------------------------------------------------------------------
\* The JSON extractor on its own
\* ------------------------------------------------------------------------
InitJson ==
    /\ j_obj \in EmbeddedObjects
    /\ \E pre \in Prefixes, suf \in Suffixes :
          j_text = pre \o Serialize(j_obj) \o suf
    /\ j_out = [kind |-> "none", ok |-> FALSE, v |-> JNull]
    /\ ParserIdle /\ ScoreIdle /\ EvalIdle /\ ValidateIdle /\ RepairIdle /\ ApiIdle /\ AttemptIdle /\ UploadIdle

\* self._extract_json(response.text)
ExtractJson ==
    /\ j_out.kind = "none"
    /\ LET r == _extract_json(j_text)
       IN  j_out' = [kind |-> IF r.ok THEN "return" ELSE "raise",
                     ok |-> r.ok, v |-> r.v]
    /\ UNCHANGED <<j_text, j_obj>>
    /\ UNCHANGED <<parserVars, scoreVars, evalVars, validateVars, repairVars, apiVars, attemptVars, uploadVars>>

NextJson == ExtractJson

SpecJson == InitJson /\ [][NextJson]_vars

\* ------------------------------------------------------------------------
\* evaluate_answer, one action per stage
\* ------------------------------------------------------------------------
InitEval ==
    /\ e_pc = "gold"
    /\ e_in \in [standard_answer : StandardAnswers, max_score : MaxScores]
    /\ e_gold = JNull /\ e_rubric = JNull
    /\ e_analysis = JNull /\ e_contra = JNull
    /\ e_log = <<>>
    /\ e_out = NoResult
    /\ ParserIdle /\ JsonIdle /\ ScoreIdle /\ ValidateIdle /\ RepairIdle /\ ApiIdle /\ AttemptIdle /\ UploadIdle

\* no generation call was made
NoGen == [raises |-> FALSE, text |-> <<>>]

Logged(stage, r, gen) ==
    Append(e_log, [stage |-> stage, called |-> r.called, how |-> r.how,
                   raised |-> r.called /\ gen.raises,
                   gen |-> IF r.called THEN gen ELSE NoGen])

\* one stage inside the try block of evaluate_answer: the stage's value is
\* kept, and an exception that leaves the stage ends the call in the handler
Handled(r, next_pc, error_msg) ==
    IF r.kind = "raise"
    THEN /\ e_pc' = "done"
         /\ e_out' = evaluate_answer_except(e_in.max_score, error_msg)
    ELSE /\ e_pc' = next_pc
         /\ UNCHANGED e_out

\* STAGE 1
StageGold ==
    /\ e_pc = "gold"
    /\ \E gen \in GoldOutcomes :
         LET r == _generate_gold_standard(e_in.standard_answer, gen)
         IN  /\ e_gold' = r.value
             /\ e_log' = Logged("gold", r, gen)
             /\ Handled(r, "rubric", "Exception")
    /\ UNCHANGED <<e_in, e_rubric, e_analysis, e_contra>>
    /\ UNCHANGED <<parserVars, jsonVars, scoreVars, validateVars, repairVars, apiVars, attemptVars, uploadVars>>

\* STAGE 2
StageRubric ==
    /\ e_pc = "rubric"
    /\ \E gen \in RubricOutcomes :
         LET r == _generate_rubric(gen)
         IN  /\ e_rubric' = r.value
             /\ e_log' = Logged("rubric", r, gen)
             /\ Handled(r, "analysis", "Exception")
    /\ UNCHANGED <<e_in, e_gold, e_analysis, e_contra>>
    /\ UNCHANGED <<parserVars, jsonVars, scoreVars, validateVars, repairVars, apiVars, attemptVars, uploadVars>>

\* STAGE 3
StageAnalysis ==
    /\ e_pc = "analysis"
    /\ \E gen \in AnalysisOutcomes :
         LET r == _analyze_student_answer(e_rubric, gen)
         IN  /\ e_analysis' = r.value
             /\ e_log' = Logged("analysis", r, gen)
             /\ Handled(r, "contradictions", "AttributeError")
    /\ UNCHANGED <<e_in, e_gold, e_rubric, e_contra>>
    /\ UNCHANGED <<parserVars, jsonVars, scoreVars, validateVars, repairVars, apiVars, attemptVars, uploadVars>>

\* STAGE 4
StageContradictions ==
    /\ e_pc = "contradictions"
    /\ \E gen \in ContradictionOutcomes :
         LET r == _check_contradictions(gen)
         IN  /\ e_contra' = r.value
             /\ e_log' = Logged("contradictions", r, gen)
             /\ Handled(r, "final", "Exception")
    /\ UNCHANGED <<e_in, e_gold, e_rubric, e_analysis>>
    /\ UNCHANGED <<parserVars, jsonVars, scoreVars, validateVars, repairVars, apiVars, attemptVars, uploadVars>>

\* STAGE 5, the metadata and the return
StageFinal ==
    /\ e_pc = "final"
    /\ LET r == _calculate_final_scores(e_analysis, e_contra, e_rubric,
                                        e_in.max_score)
       IN  e_out' = IF r.kind = "raise"
                    THEN evaluate_answer_except(e_in.max_score, r.msg[1])
                    ELSE Returned(WithMetadata(r.value, e_gold, e_rubric))
    /\ e_log' = Append(e_log, [stage |-> "final", called |-> FALSE,
                               how |-> "ok", raised |-> FALSE,
                               gen |-> NoGen])
    /\ e_pc' = "done"
    /\ UNCHANGED <<e_in, e_gold, e_rubric, e_analysis, e_contra>>
    /\ UNCHANGED <<parserVars, jsonVars, scoreVars, validateVars, repairVars, apiVars, attemptVars, uploadVars>>

NextEval ==
    StageGold \/ StageRubric \/ StageAnalysis \/ StageContradictions
      \/ StageFinal

SpecEval == InitEval /\ [][NextEval]_vars

\* ------------------------------------------------------------------------
\* _calculate_final_scores on its own
\* ------------------------------------------------------------------------
FluffValues == {0, 250, 1500, -200}
ScoreValues == {<<80, 80>>, <<50, 50>>, <<95, 75>>}
WeightChoices == {DefaultWeights, GeneratedWeights}

AnalysisOf(ec, sc, kc, fe, fluff, cg) ==
    JObj(<<Member("covered_essential", Strings(ec, "p1")),
           Member("covered_supporting", Strings(sc, "d1")),
           Member("keywords_found", Strings(kc, "k1")),
           Member("missing_points", JArr(<<>>)),
           Member("factual_errors", Strings(fe, "e1")),
           Member("irrelevant_segments", JArr(<<>>)),
           Member("fluff_percent", JNum(fluff)),
           Member("grammar_score", JNum(cg[2])),
           Member("clarity_score", JNum(cg[1])),
           Member("relevance_score", JNum(70))>>)

RubricOf(et, st, kt, w) ==
    JObj(<<Member("essential_points", Strings(et, "p1")),
           Member("supporting_points", Strings(st, "d1")),
           Member("required_keywords", Strings(kt, "k1")),
           Member("weights", w)>>)

Analyses ==
    { AnalysisOf(ec, sc, kc, fe, fluff, cg) :
        ec \in 0..MaxCovered, sc \in {0, MaxCovered}, kc \in {0, 1},
        fe \in 0..MaxPenalties, fluff \in FluffValues, cg \in ScoreValues }

Rubrics ==
    { RubricOf(et, st, kt, w) :
        et \in 0..MaxTotal, st \in {1, MaxTotal}, kt \in {0, 1},
        w \in WeightChoices }

InitScore ==
    /\ s_in \in [ analysis : Analyses,
                  contradictions : {Strings(n, "c1") : n \in 0..MaxPenalties},
                  rubric : Rubrics,
                  max_score : {1, 100} ]
    /\ s_out = NoResult
    /\ ParserIdle /\ JsonIdle /\ EvalIdle /\ ValidateIdle /\ RepairIdle /\ ApiIdle /\ AttemptIdle /\ UploadIdle

CalculateFinalScores ==
    /\ s_out.kind = "none"
    /\ s_out' = _calculate_final_scores(s_in.analysis, s_in.contradictions,
                                        s_in.rubric, s_in.max_score)
    /\ UNCHANGED s_in
    /\ UNCHANGED <<parserVars, jsonVars, evalVars, validateVars, repairVars, apiVars, attemptVars, uploadVars>>

NextScore == CalculateFinalScores

SpecScore == InitScore /\ [][NextScore]_vars

\* ------------------------------------------------------------------------
\* Parser operations
\* ------------------------------------------------------------------------
InitParser ==
    /\ doc \in Docs
    /\ p_op = "idle"
    /\ p_env = NoEnv
    /\ p_out = NoOut
    /\ JsonIdle /\ ScoreIdle /\ EvalIdle /\ ValidateIdle /\ RepairIdle /\ ApiIdle /\ AttemptIdle /\ UploadIdle

\* QuestionParser()._parse_questions(text) on the text of the document
ParseQuestions ==
    /\ p_op = "idle"
    /\ p_op' = "_parse_questions"
    /\ p_out' = Returned(_parse_questions(_extract_text_from_docx(doc)))
    /\ UNCHANGED <<doc, p_env>>
    /\ UNCHANGED <<jsonVars, scoreVars, evalVars, validateVars, repairVars, apiVars, attemptVars, uploadVars>>

ParseQuestionFromDocx ==
    /\ p_op = "idle"
    /\ \E e \in BOOLEAN, r \in BOOLEAN :
         /\ p_env' = [exists |-> e, readable |-> r]
         /\ p_out' = parse_question_from_docx(doc, p_env')
    /\ p_op' = "parse_question_from_docx"
    /\ UNCHANGED doc
    /\ UNCHANGED <<jsonVars, scoreVars, evalVars, validateVars, repairVars, apiVars, attemptVars, uploadVars>>

ParseQuestionFromPdf ==
    /\ p_op = "idle"
    /\ \E e \in BOOLEAN, r \in BOOLEAN :
         /\ p_env' = [exists |-> e, readable |-> r]
         /\ p_out' = parse_question_from_pdf(doc, p_env')
    /\ p_op' = "parse_question_from_pdf"
    /\ UNCHANGED doc
    /\ UNCHANGED <<jsonVars, scoreVars, evalVars, validateVars, repairVars, apiVars, attemptVars, uploadVars>>

NextParser == ParseQuestions \/ ParseQuestionFromDocx \/ ParseQuestionFromPdf

SpecParser == InitParser /\ [][NextParser]_vars

\* ------------------------------------------------------------------------
\* Properties of the parser
\* ------------------------------------------------------------------------
WellFormed(q) == Len(q.options) = 4 /\ CountCorrect(q.options) = 1

Placeholder(n) ==
    [text |-> <<"O","p","t","i","o","n"," ", DigitChar[n]>>,
     is_correct |-> FALSE]

\* C1: every question record that _parse_questions returns has exactly 4
\* options and exactly 1 option marked correct, whether it was accepted as
\* collected or came out of _fix_question_structure.
C1_FourOptionsOneCorrect ==
    p_out.kind = "return" =>
        \A i \in DOMAIN p_out.value : WellFormed(p_out.value[i])

\* a repaired record (it carries a padded placeholder) has been returned
C1_Witness ==
    /\ p_op = "_parse_questions"
    /\ \E i \in DOMAIN p_out.value : p_out.value[i].options[4] = Placeholder(4)

\* no cleaned line of the document's text is question-like
NoQuestionLine(d) ==
    LET cleaned == CleanLines(Split(_extract_text_from_docx(d), "\n"))
    IN  \A i \in DOMAIN cleaned : ~_is_question(cleaned[i])

CallerFacing == {"parse_question_from_docx", "parse_question_from_pdf"}

\* C2: the caller-facing extraction functions never return an empty list;
\* when the file can be read and parsing emits nothing (in particular when
\* no line is question-like) they raise an error whose message carries the
\* 'No valid questions found' diagnostic.
C2_NeverReturnsEmpty ==
    p_op \in CallerFacing =>
        /\ p_out.kind \in {"return", "raise"}
        /\ p_out.kind = "return" => p_out.value # <<>>
        /\ (p_env.exists /\ p_env.readable /\ p_out.kind = "raise") =>
              \E i \in DOMAIN p_out.msg : p_out.msg[i] = NoValidQuestions
        /\ (p_env.exists /\ p_env.readable /\ NoQuestionLine(doc)) =>
              p_out.kind = "raise"

\* a readable document with lines, none of them a question, was refused
C2_Witness ==
    /\ p_op = "parse_question_from_docx"
    /\ p_env.exists /\ p_env.readable
    /\ doc.paras # <<>> /\ NoQuestionLine(doc)
    /\ p_out.kind = "raise"
    /\ \E i \in DOMAIN p_out.msg : p_out.msg[i] = NoValidQuestions

\* C8: extracting 'What is 2+2?', '3', '4*', '5', '6' emits exactly one
\* question with the options '3','4','5','6' in that order, the second one
\* marked correct and the other three incorrect.
C8_ScenarioEmitsOneQuestion ==
    (p_op = "_parse_questions" /\ doc.paras = ScenarioLines
                               /\ doc.cells = <<>>) =>
        p_out.value =
          <<[question |-> LineQuestion,
             options |-> <<[text |-> <<"3">>, is_correct |-> FALSE],
                           [text |-> <<"4">>, is_correct |-> TRUE],
                           [text |-> <<"5">>, is_correct |-> FALSE],
                           [text |-> <<"6">>, is_correct |-> FALSE]>>]>>

\* ------------------------------------------------------------------------
\* Properties of the evaluator
\* ------------------------------------------------------------------------
Ratings == {"Excellent", "Good", "Average", "Poor"}

IsFallback(v) ==
    "error" \in DOMAIN v /\ v = _get_fallback_result(e_in.max_score, v.error)

IsAggregated(v) ==
    /\ "error" \notin DOMAIN v
    /\ e_log # <<>> /\ e_log[Len(e_log)].stage = "final"
    /\ v.max_score = e_in.max_score /\ v.rating \in Ratings
    /\ v.detailed_breakdown # <<>>

\* C3: evaluate_answer never raises to its caller: whatever its generation
\* calls do at every stage (raise, text without JSON, JSON that lacks fields
\* or holds values of the wrong type), it returns a result dictionary,
\* which is the aggregator's result or the fallback result.
C3_NeverRaises ==
    /\ e_out.kind # "raise"
    /\ e_pc = "done" =>
         /\ e_out.kind = "return"
         /\ IsFallback(e_out.value) \/ IsAggregated(e_out.value)

\* a failed generation call and an exception in the aggregator ended in the
\* fallback result
C3_Witness ==
    /\ e_pc = "done"
    /\ IsFallback(e_out.value)
    /\ \E i \in DOMAIN e_log : e_log[i].raised
    /\ e_log[Len(e_log)].stage = "final"

\* C4: for every analysis, contradiction list and rubric and every
\* max_score > 0, the result of _calculate_final_scores has
\* 0 <= overall_score <= max_score and 0 <= percentage <= 100.
C4_ScoreWithinBounds ==
    s_out.kind = "return" =>
        /\ 0 <= s_out.value.overall_score
        /\ s_out.value.overall_score <= 100 * s_in.max_score
        /\ 0 <= s_out.value.percentage
        /\ s_out.value.percentage <= 10000

\* more essential points covered than the rubric holds: the score is held
\* at max_score
C4_Witness ==
    /\ s_out.kind = "return"
    /\ LenOf(Get(s_in.analysis, "covered_essential", JNull))
         > LenOf(Get(s_in.rubric, "essential_points", JNull))
    /\ Len(s_in.contradictions.kids) > 0
    /\ s_out.value.overall_score = 100 * s_in.max_score

LogOf(stage) == e_log[CHOOSE i \in DOMAIN e_log : e_log[i].stage = stage]
GenStages == {"gold", "rubric", "analysis", "contradictions"}
Ran(stage) == \E i \in DOMAIN e_log : e_log[i].stage = stage

\* the generation capability was called, and raised, at every stage
AllGenerationFailed ==
    \A st \in GenStages : Ran(st) /\ LogOf(st).raised

\* C5: when the generation capability fails at every stage of one
\* evaluation, evaluate_answer returns the fallback result: overall_score
\* = 0.5 * max_score, rating 'Average' and a non-null error field.
C5_AllFailedGivesFallback ==
    (e_pc = "done" /\ AllGenerationFailed) =>
        /\ e_out.kind = "return"
        /\ e_out.value.overall_score = 50 * e_in.max_score
        /\ e_out.value.rating = "Average"
        /\ "error" \in DOMAIN e_out.value

\* C6: for every well-formed JSON object, of any nesting depth, embedded in
\* surrounding text and fences, _extract_json returns an object equal to
\* the embedded object.
C6_ExtractRoundTrips ==
    j_out.kind \in {"return", "raise"} =>
        j_out.kind = "return" /\ j_out.v = j_obj

\* d with the value of key replaced
SetMember(d, key, v) ==
    [d EXCEPT !.kids = [i \in DOMAIN d.kids |->
                          IF d.kids[i].k = key THEN [k |-> key, v |-> v]
                          ELSE d.kids[i]]]

\* the inputs that differ from in only by a larger penalty input
MorePenalised(in) ==
    { [in EXCEPT !.analysis = SetMember(@, "fluff_percent", JNum(f))] :
        f \in {g \in FluffValues :
                 g > Get(in.analysis, "fluff_percent", JNull).n} }
    \cup { [in EXCEPT !.contradictions = Strings(n, "c1")] :
             n \in (Len(in.contradictions.kids) + 1)..(MaxPenalties + 1) }
    \cup { [in EXCEPT !.analysis =
                        SetMember(@, "factual_errors", Strings(n, "e1"))] :
             n \in (LenOf(Get(in.analysis, "factual_errors", JNull)) + 1)
                     ..(MaxPenalties + 1) }

ScoreOf(in) ==
    _calculate_final_scores(in.analysis, in.contradictions, in.rubric,
                            in.max_score).value.overall_score

\* C7: of two calls of _calculate_final_scores that differ only in that
\* one has a larger fluff_percent, more contradictions or more factual
\* errors, the one with the larger penalty input never has the larger
\* overall_score.
C7_MonotonicInPenalties ==
    s_out.kind = "return" =>
        \A in2 \in MorePenalised(s_in) :
            ScoreOf(in2) <= s_out.value.overall_score

\* a larger penalty input that does lower the score
C7_Witness ==
    /\ s_out.kind = "return"
    /\ \E in2 \in MorePenalised(s_in) :
          /\ Len(in2.contradictions.kids) > Len(s_in.contradictions.kids)
          /\ 0 < ScoreOf(in2)
          /\ ScoreOf(in2) < s_out.value.overall_score

\* the shape the prompts ask the generated JSON to have
ListOfStrings(v) ==
    v.t = "arr" /\ \A i \in DOMAIN v.kids : v.kids[i].v.t = "str"

UsableRubric(r) ==
    /\ r.t = "obj"
    /\ \A k \in RubricKeys : Has(r, k) /\ ListOfStrings(Get(r, k, JNull))
    /\ Has(r, "weights") =>
         /\ Get(r, "weights", JNull).t = "obj"
         /\ \A k \in WeightKeys : IsNum(Get(Get(r, "weights", JNull), k, JNull))

UsableAnalysis(a) ==
    /\ a.t = "obj"
    /\ \A k \in {"covered_essential", "covered_supporting", "keywords_found",
                 "missing_points", "factual_errors", "irrelevant_segments"} :
          ListOfStrings(Get(a, k, JArr(<<>>)))
    /\ \A k \in {"fluff_percent", "grammar_score", "clarity_score",
                 "relevance_score"} : IsNum(Get(a, k, JNum(0)))

\* the default a stage puts in place of a failed generation
StageDefault(stage) ==
    CASE stage = "gold" -> JStr("[Gold standard generation failed]")
      [] stage = "rubric" -> DefaultRubric
      [] stage = "analysis" -> FailedAnalysis
      [] OTHER -> JArr(<<>>)

StageValue(stage) ==
    CASE stage = "gold" -> e_gold
      [] stage = "rubric" -> e_rubric
      [] stage = "analysis" -> e_analysis
      [] OTHER -> e_contra

\* the value a stage left has the shape its prompt asks for
Usable(stage) ==
    CASE stage = "rubric" -> UsableRubric(e_rubric)
      [] stage = "analysis" -> UsableAnalysis(e_analysis)
      [] stage = "contradictions" -> ListOfStrings(e_contra)
      [] OTHER -> TRUE

\* the generation call of a stage raised, or its response was unusable
Failed(stage) == LogOf(stage).raised \/ LogOf(stage).how = "default"

\* stage st alone failed: the others made no call or produced a response of
\* the shape their prompt asks for
FailureConfinedTo(st) ==
    /\ Ran(st) /\ Failed(st)
    /\ \A o \in GenStages \ {st} :
          Ran(o) => /\ ~Failed(o)
                    /\ LogOf(o).how \in {"ok", "skipped"}
                    /\ Usable(o)

StagesRun == [i \in DOMAIN e_log |-> e_log[i].stage]

C10_WeightsAreFixed ==
    (e_pc = "done" /\ e_out.kind = "return" /\ IsAggregated(e_out.value)) =>
        weights_of(e_rubric) = DefaultWeights

\* C11: every result evaluate_answer returns, from the normal path or from
\* the fallback path, carries the measured execution_time and the model
\* identifier model_used.
C11_ResultCarriesMetadata ==
    (e_pc = "done" /\ e_out.kind = "return") =>
        {"execution_time", "model_used"} \subseteq DOMAIN e_out.value

\* the response a stage got from its generation call, and what
\* _extract_json makes of it
ResponseOf(stage) == LogOf(stage).gen
ParsedOf(stage) == _extract_json(ResponseOf(stage).text)

\* a parsed response that is an object with the three lists of points
HasRubricFields(parsed) ==
    /\ parsed.ok /\ parsed.v.t = "obj"
    /\ \A k \in RubricKeys : Has(parsed.v, k)

\* C12: _generate_rubric always returns a usable rubric and never raises:
\* when the generation call raises, its text cannot be parsed as JSON, or
\* one of essential_points, supporting_points, required_keywords is
\* absent, it returns the default rubric.
C12_RubricAlwaysUsable ==
    Ran("rubric") =>
        /\ LogOf("rubric").how # "raised"
        /\ UsableRubric(e_rubric)
        /\ (ResponseOf("rubric").raises \/ ~HasRubricFields(ParsedOf("rubric")))
             => e_rubric = DefaultRubric

AnalysisKeys == {AnalysisDefaults[i].k : i \in DOMAIN AnalysisDefaults}
DefaultOf(key) ==
    AnalysisDefaults[CHOOSE i \in DOMAIN AnalysisDefaults :
                       AnalysisDefaults[i].k = key].v

\* C13: _analyze_student_answer always returns an analysis with all ten
\* fields: a field of the parsed response keeps its value, an absent field
\* gets its default, and when no response can be parsed the result is the
\* failed analysis (missing_points = ['Analysis failed'], scores 5.0).
C13_AnalysisAlwaysComplete ==
    Ran("analysis") =>
        /\ LogOf("analysis").how # "raised"
        /\ \A k \in AnalysisKeys : Has(e_analysis, k)
        /\ (ResponseOf("analysis").raises \/ ~ParsedOf("analysis").ok)
             => e_analysis = FailedAnalysis
        /\ (~ResponseOf("analysis").raises /\ ParsedOf("analysis").ok
              /\ ParsedOf("analysis").v.t = "obj")
             => \A k \in AnalysisKeys :
                   Get(e_analysis, k, JNull)
                     = Get(ParsedOf("analysis").v, k, DefaultOf(k))

EmptyContradictionsResponse ==
    GenText(Fenced(JObj(<<Member("contradictions", JArr(<<>>))>>)))

\* C14: the contradiction checker is fail-open: when its generation call
\* raises or its response cannot be parsed, _check_contradictions returns
\* the empty list, so the contradiction penalty is 0; a fenced object with
\* an empty contradictions list also yields the empty list.
C14_ContradictionsFailOpen ==
    Ran("contradictions") =>
        /\ (ResponseOf("contradictions").raises
              \/ ~ParsedOf("contradictions").ok)
             => /\ LogOf("contradictions").how = "default"
                /\ e_contra = JArr(<<>>)
                /\ (e_pc = "done" /\ IsAggregated(e_out.value)) =>
                     e_out.value.detailed_breakdown.contradiction_penalty = 0
        /\ ResponseOf("contradictions") = EmptyContradictionsResponse
             => LogOf("contradictions").how = "ok" /\ e_contra = JArr(<<>>)

\* an unparsable response of the checker, and a score without a
\* contradiction penalty
C14_Witness ==
    /\ e_pc = "done"
    /\ Ran("contradictions")
    /\ ResponseOf("contradictions") = GenText(Prose)
    /\ IsAggregated(e_out.value)
    /\ e_out.value.detailed_breakdown.contradiction_penalty = 0
    /\ e_out.value.overall_score > 0

\* ------------------------------------------------------------------------
\* Properties of the score aggregator
\* ------------------------------------------------------------------------
\* the bands of the adjusted score: limits in tenths of a point (Hi = 0: no
\* upper limit), multipliers in hundredths
Bands ==
    { [rating |-> "Excellent", lo |-> 85, hi |-> 0, mult |-> 100],
      [rating |-> "Good", lo |-> 70, hi |-> 85, mult |-> 95],
      [rating |-> "Average", lo |-> 50, hi |-> 70, mult |-> 85],
      [rating |-> "Poor", lo |-> 0, hi |-> 50, mult |-> 75] }

\* the adjusted score of an input of the aggregator whose fields are all
\* present, as the fraction AdjustedNum / AdjustedDen
CountOf(v, key) == LenOf(Get(v, key, JNull))
TotalOf(in, key) == Max(CountOf(in.rubric, key), 1)
AdjustedDen(in) ==
    1000 * TotalOf(in, "essential_points") * TotalOf(in, "supporting_points")
         * TotalOf(in, "required_keywords")
Part(in, covered, points, weight) ==
    (CountOf(in.analysis, covered) * weights_of(in.rubric).kids[weight].v.n
       * AdjustedDen(in)) \div TotalOf(in, points)
Tenth(in, score, weight) ==
    (Get(in.analysis, score, JNull).n * weights_of(in.rubric).kids[weight].v.n
       * AdjustedDen(in)) \div 100
AdjustedNum(in) ==
    Max(0, Part(in, "covered_essential", "essential_points", 1)
           + Part(in, "covered_supporting", "supporting_points", 2)
           + Part(in, "keywords_found", "required_keywords", 3)
           + Tenth(in, "clarity_score", 4) + Tenth(in, "grammar_score", 5)
           - (Get(in.analysis, "fluff_percent", JNull).n * AdjustedDen(in))
               \div 500
           - (3 * Len(in.contradictions.kids) * AdjustedDen(in)) \div 2
           - CountOf(in.analysis, "factual_errors") * AdjustedDen(in))

InBand(b, num, den) ==
    /\ 10 * num >= b.lo * den
    /\ b.hi = 0 \/ 10 * num < b.hi * den

\* C15: the rating bands partition the adjusted scale without gap or
\* overlap: every adjusted score lies in exactly one band, adjusted >= 8.5
\* is Excellent (multiplier 1.00), 7.0 <= adjusted < 8.5 Good (0.95),
\* 5.0 <= adjusted < 7.0 Average (0.85), adjusted < 5.0 Poor (0.75); 8.5,
\* 7.0 and 5.0 fall in the higher band.
C15_RatingBandsPartition ==
    s_out.kind = "return" =>
        LET num == AdjustedNum(s_in)
            den == AdjustedDen(s_in)
            mine == {b \in Bands : InBand(b, num, den)}
        IN  /\ Cardinality(mine) = 1
            /\ \A b \in mine :
                 /\ s_out.value.rating = b.rating
                 /\ s_out.value.overall_score =
                      Min(100 * s_in.max_score,
                          RoundMulDiv(num, s_in.max_score * (b.mult \div 5),
                                      2 * den))

\* an adjusted score of exactly 7.0, rated Good
C15_Witness ==
    /\ s_out.kind = "return"
    /\ AdjustedNum(s_in) = 7 * AdjustedDen(s_in)
    /\ s_out.value.rating = "Good"
    /\ s_out.value.overall_score = 6650
    /\ s_in.max_score = 100

\* 2 of 2 essential points, 0 of 1 supporting points, no keywords against
\* no required keywords, clarity 8 and grammar 8, nothing to penalise
Scenario47 ==
    [ analysis |-> AnalysisOf(2, 0, 0, 0, 0, <<80, 80>>),
      contradictions |-> Strings(0, "c1"),
      rubric |-> RubricOf(2, 1, 0, DefaultWeights),
      max_score |-> 100 ]

\* C16: with weights 0.4/0.2/0.2/0.1/0.1, 2 of 2 essential points, 0 of 1
\* supporting points, 0 keywords against 0 required, clarity 8, grammar 8,
\* fluff 0, no contradictions, no factual errors and max_score 100,
\* _calculate_final_scores yields content score 5.6, rating 'Average' and
\* overall_score 47.6.
C16_ScenarioScores47_6 ==
    (s_in = Scenario47 /\ s_out.kind # "none") =>
        /\ s_out.kind = "return"
        /\ s_out.value.detailed_breakdown.content_score_raw = 560
        /\ s_out.value.rating = "Average"
        /\ s_out.value.overall_score = 4760

C16_Witness ==
    /\ s_in = Scenario47
    /\ s_out.kind = "return"
    /\ s_out.value.percentage = 4760
    /\ s_out.value.detailed_breakdown.keywords_score = 0

\* ------------------------------------------------------------------------
\* More properties of the parser
\* ------------------------------------------------------------------------
\* C17: the repair is idempotent: _fix_question_structure applied to a
\* question it has returned (4 options, 1 correct) returns the same stem
\* and the same options, with the same texts, order and correct flags.
C17_RepairIdempotent ==
    p_op = "_parse_questions" =>
        \A i \in DOMAIN p_out.value :
            LET q == p_out.value[i]
            IN  _fix_question_structure(q.question, q.options) = <<q>>

\* a returned record that the repair had padded, with its correct option
\* not in the first place
C17_Witness ==
    /\ p_op = "_parse_questions"
    /\ \E i \in DOMAIN p_out.value :
          LET q == p_out.value[i]
          IN  /\ q.options[3] = Placeholder(3)
              /\ q.options[2].is_correct
              /\ _fix_question_structure(q.question, q.options) = <<q>>

\* ------------------------------------------------------------------------
\* The order of the stages
\* ------------------------------------------------------------------------
StageOrder == <<"gold", "rubric", "analysis", "contradictions", "final">>
Positions == <<"gold", "rubric", "analysis", "contradictions", "final", "done">>

\* C18: one evaluation runs the stages in the order gold answer, rubric,
\* analysis, contradictions, final score, each at most once and never
\* going back; the generation capability is invoked at most once per
\* stage, not at all by the gold stage when the reference answer has at
\* least 30 words, and never by the final stage.
C18_StagesInFixedOrder ==
    /\ Len(e_log) <= Len(StageOrder)
    /\ \A i \in DOMAIN e_log : e_log[i].stage = StageOrder[i]
    /\ e_pc # "done" => e_pc = Positions[Len(e_log) + 1]
    /\ \A i \in DOMAIN e_log :
          /\ ~e_log[i].called => e_log[i].gen = NoGen
          /\ e_log[i].stage = "final" => ~e_log[i].called
          /\ (e_log[i].stage = "gold" /\ e_in.standard_answer.given
                /\ e_in.standard_answer.words >= 30) => ~e_log[i].called

\* all five stages ran, the gold stage on a reference of exactly 30 words
\* without a generation call, the three stages after it with one each
C18_Witness ==
    /\ e_pc = "done"
    /\ StagesRun = StageOrder
    /\ e_in.standard_answer.given /\ e_in.standard_answer.words = 30
    /\ ~e_log[1].called
    /\ \A i \in 2..4 : e_log[i].called

\* C20: the fluff penalty subtracted from the content score never exceeds
\* 2 points and is never negative, for every analysis the analyzer stage
\* can hand to the aggregator, generated fluff_percent values outside
\* 0..100 included.
C20_FluffPenaltyAtMostTwo ==
    s_out.kind = "return" =>
        /\ 0 <= s_out.value.detailed_breakdown.fluff_penalty
        /\ s_out.value.detailed_breakdown.fluff_penalty <= 200

\* ------------------------------------------------------------------------
\* The validator on its own
\* ------------------------------------------------------------------------
InitValidate ==
    /\ v_in \in SeqsUpTo(QuestionPool, MaxQuestions)
    /\ v_out = NoOut
    /\ ParserIdle /\ JsonIdle /\ ScoreIdle /\ EvalIdle /\ RepairIdle /\ ApiIdle /\ AttemptIdle /\ UploadIdle

\* validate_questions(questions)
ValidateQuestions ==
    /\ v_out.kind = "none"
    /\ LET r == validate_questions(v_in)
       IN  /\ v_out' = Returned([is_valid |-> r.is_valid, errors |-> r.errors])
           /\ v_in' = r.questions
    /\ UNCHANGED <<parserVars, jsonVars, scoreVars, evalVars, repairVars, apiVars, attemptVars, uploadVars>>

NextValidate == ValidateQuestions

SpecValidate == InitValidate /\ [][NextValidate]_vars

\* ------------------------------------------------------------------------
\* Properties of the validator
\* ------------------------------------------------------------------------
StemMissing(q) == ~Has(q, "question") \/ Get(q, "question", JNull).s = ""
OptionsOf(q) == IF Has(q, "options") THEN Get(q, "options", JNull).kids ELSE <<>>
CorrectIn(q) ==
    Cardinality({j \in DOMAIN OptionsOf(q) :
                   /\ Has(OptionsOf(q)[j].v, "is_correct")
                   /\ Get(OptionsOf(q)[j].v, "is_correct", JNull).n = 1})
TextMissing(q, j) ==
    \/ ~Has(OptionsOf(q)[j].v, "text")
    \/ Get(OptionsOf(q)[j].v, "text", JNull).s = ""

\* the digit that names a number
Digit(n) == CHOOSE c \in Digits : c = Str(n)

\* the violations of the questions qs, each as the message it must produce
ViolationsOf(qs) ==
    {<<"Question ", Digit(i), ": Missing question text">> :
        i \in {k \in DOMAIN qs : StemMissing(qs[k])}}
    \cup {<<"Question ", Digit(i), ": Must have exactly 4 options (found ",
            Digit(Len(OptionsOf(qs[i]))), ")">> :
            i \in {k \in DOMAIN qs : Len(OptionsOf(qs[k])) # 4}}
    \cup {<<"Question ", Digit(i),
            ": Must have exactly 1 correct answer (found ",
            Digit(CorrectIn(qs[i])), ")">> :
            i \in {k \in DOMAIN qs : CorrectIn(qs[k]) # 1}}
    \cup UNION {{<<"Question ", Digit(i), ", Option ", Digit(j),
                   ": Missing option text">> :
                   j \in {o \in DOMAIN OptionsOf(qs[i]) : TextMissing(qs[i], o)}} :
                 i \in DOMAIN qs}

\* the questions the validator was given, read from the idle or the
\* finished call (the call leaves them in v_in)
GivenQuestions == {qs \in SeqsUpTo(QuestionPool, MaxQuestions) : qs = v_in}

\* C19: validate_questions checks every question for a non-empty stem,
\* exactly 4 options, exactly 1 correct option and a non-empty text of
\* every option, records every violation of every question, returns
\* is_valid = true exactly when the error list is empty, and does not
\* modify its input.
C19_ValidatorRecordsEveryViolation ==
    v_out.kind = "return" =>
        LET errors == v_out.value.errors
        IN  /\ {errors[n] : n \in DOMAIN errors} = ViolationsOf(v_in)
            /\ Len(errors) = Cardinality(ViolationsOf(v_in))
            /\ v_out.value.is_valid <=> errors = <<>>
            /\ v_out.value.is_valid <=> ViolationsOf(v_in) = {}
            /\ GivenQuestions # {}

\* two questions, the second with several violations, all recorded after
\* those of the first
C19_Witness ==
    /\ v_out.kind = "return"
    /\ Len(v_in) = 2
    /\ ~v_out.value.is_valid
    /\ Len(v_out.value.errors) >= 4
    /\ v_out.value.errors[1][2] = "1"
    /\ \E n \in DOMAIN v_out.value.errors :
          /\ v_out.value.errors[n][2] = "2"
          /\ v_out.value.errors[n][3] = ", Option "

\* C21: every component score of detailed_breakdown (essential points,
\* supporting points, keywords, clarity, grammar) lies in 0..10, for every
\* analysis and rubric, an analysis that lists more covered points or
\* found keywords than the rubric holds included.
C21_ComponentScoresInRange ==
    s_out.kind = "return" =>
        \A k \in {"essential_points_score", "supporting_points_score",
                  "keywords_score", "clarity_score", "grammar_score"} :
            /\ 0 <= s_out.value.detailed_breakdown[k]
            /\ s_out.value.detailed_breakdown[k] <= 1000

\* the cleaned lines of the document the parser was given
CleanedLines == CleanLines(Split(_extract_text_from_docx(doc), "\n"))

\* C25: during option collection a question-like line ends the option list
\* of the current question only if an option has been collected already; a
\* question line for which no option is collected produces no record, so
\* every emitted record holds at least one option taken from the source
\* lines (never four placeholders).
C25_QuestionLineEndsNonEmptyList ==
    p_op = "_parse_questions" =>
        LET lines == CleanedLines
            stems == {i \in DOMAIN lines : _is_question(lines[i])}
            got == [i \in stems |-> CollectOptions(lines, i + 1, <<>>)]
            texts == {_parse_option(lines[i]).text : i \in DOMAIN lines}
        IN  /\ \A i \in stems :
                  (got[i].i <= Len(lines) /\ Len(got[i].options) < 4) =>
                      /\ _is_question(lines[got[i].i])
                      /\ Len(got[i].options) > 0
            /\ \A n \in DOMAIN p_out.value :
                  /\ p_out.value[n].options[1].text \in texts
                  /\ p_out.value[n].options[1] # Placeholder(1)
            /\ (\A i \in stems : got[i].options = <<>>) => p_out.value = <<>>

\* a question line directly followed by another question-like line keeps
\* collecting and is emitted with an option found after that line
C25_Witness ==
    /\ p_op = "_parse_questions"
    /\ Len(CleanedLines) >= 3
    /\ _is_question(CleanedLines[1]) /\ _is_question(CleanedLines[2])
    /\ Len(p_out.value) = 1
    /\ p_out.value[1].question = CleanedLines[1]
    /\ p_out.value[1].options[1].text = _parse_option(CleanedLines[3]).text

\* ------------------------------------------------------------------------
\* The repair of a question on its own
\* ------------------------------------------------------------------------
\* the option at position k of a list: its text names the position
OptionAt(k, flag) == [text |-> <<"t", DigitChar[k]>>, is_correct |-> flag]

OptionLists ==
    UNION {{[k \in 1..n |-> OptionAt(k, f[k])] : f \in [1..n -> BOOLEAN]} :
               n \in 1..MaxOptions}

InitRepair ==
    /\ f_in \in [question_text : {LineQuestion, LineIs}, options : OptionLists]
    /\ f_out = NoOut
    /\ ParserIdle /\ JsonIdle /\ ScoreIdle /\ EvalIdle /\ ValidateIdle /\ ApiIdle /\ AttemptIdle /\ UploadIdle

\* QuestionParser()._fix_question_structure(question_text, options)
FixQuestionStructure ==
    /\ f_out = NoOut
    /\ f_out' = Returned(_fix_question_structure(f_in.question_text,
                                                 f_in.options))
    /\ UNCHANGED f_in
    /\ UNCHANGED <<parserVars, jsonVars, scoreVars, evalVars, validateVars, apiVars, attemptVars, uploadVars>>

NextRepair == FixQuestionStructure

SpecRepair == InitRepair /\ [][NextRepair]_vars

\* the position of the first option marked correct in the input, or the
\* first position if none is marked
FirstCorrect ==
    LET marked == {k \in DOMAIN f_in.options : f_in.options[k].is_correct}
    IN  IF marked = {} THEN 1 ELSE Least(marked)

TextsOf(options) == [k \in DOMAIN options |-> options[k].text]

\* C26: when the repair is applied to a record with at least 4 options, the
\* single option left marked correct is the first option that was marked
\* correct in the input, or the first option of the list if none was
\* marked; every other option ends up marked incorrect.
C26_FirstCorrectSurvives ==
    (f_out.kind = "return" /\ Len(f_in.options) >= 4) =>
        /\ f_out.value # <<>>
        /\ LET kept == f_out.value[1].options
           IN  /\ \E k \in DOMAIN kept : kept[k].is_correct
               /\ \A k \in DOMAIN kept :
                     kept[k].is_correct <=>
                         kept[k].text = f_in.options[FirstCorrect].text

\* several options were marked, the first of them not at the front
C26_Witness ==
    /\ f_out.kind = "return" /\ f_out.value # <<>>
    /\ Len(f_in.options) >= 4
    /\ CountCorrect(f_in.options) > 1
    /\ FirstCorrect > 1
    /\ CountCorrect(f_out.value[1].options) = 1

\* the positions the trimming is said to keep: the first correct option and
\* the first three of the others
KeptPositions ==
    LET others == DOMAIN f_in.options \ {FirstCorrect}
    IN  {FirstCorrect}
          \cup {k \in others : Cardinality({j \in others : j < k}) < 3}

\* C27: given more than 4 options, the repair keeps the first correct
\* option and the first three non-correct options, in the same relative
\* order as in the input list.
C27_TrimKeepsInputOrder ==
    (f_out.kind = "return" /\ Len(f_in.options) > 4) =>
        /\ f_out.value # <<>>
        /\ TextsOf(f_out.value[1].options)
             = TextsOf(SelectSeq(f_in.options,
                   LAMBDA o : \E k \in KeptPositions :
                                 o.text = f_in.options[k].text))

\* the dict that a question record of the parser is, as the validator
\* reads it
QuestionDict(q) ==
    Question(q.question,
             [j \in DOMAIN q.options |->
                Opt(q.options[j].text, q.options[j].is_correct)])

ReturnedQuestions == [n \in DOMAIN p_out.value |-> QuestionDict(p_out.value[n])]

\* C28: every list of questions that _parse_questions returns passes
\* validate_questions with is_valid true and no error: every emitted stem
\* and every emitted option text, padded placeholders included, is
\* non-empty.
C28_ParsedQuestionsValidate ==
    p_op = "_parse_questions" =>
        /\ validate_questions(ReturnedQuestions).is_valid
        /\ validate_questions(ReturnedQuestions).errors = <<>>
        /\ \A n \in DOMAIN p_out.value :
              /\ p_out.value[n].question # <<>>
              /\ \A j \in DOMAIN p_out.value[n].options :
                    p_out.value[n].options[j].text # <<>>

\* a question is emitted from a document that holds an option line without
\* text, with placeholders appended
C28_Witness ==
    /\ p_op = "_parse_questions"
    /\ \E i \in DOMAIN CleanedLines : CleanedLines[i] = LineStar
    /\ p_out.value # <<>>
    /\ p_out.value[1].options[4] = Placeholder(4)
    /\ validate_questions(ReturnedQuestions).is_valid

\* ------------------------------------------------------------------------
\* AnswerEvaluator._call_api (quiz/descriptive_evauation.py)
\* ------------------------------------------------------------------------
\* range(max_retries) holds no attempt after this one
LastAttemptLate(attempt, max_retries) == attempt >= max_retries

LastAttempt(attempt, max_retries) == attempt + 1 >= max_retries

\* wait_time = 10 * (attempt + 1)
WaitAfterLoading(attempt) == 10 * (attempt + 1)

\* time.sleep(2) after a request exception that is not the last one
WaitAfterException == 2

ApiError(text) == Returned(<<"API Error: ", text>>)

MaxRetriesReached == ApiError("Max retries reached")

\* what response.json() holds: a list of dicts, a dict, or something else
ApiResults ==
    { JArr(<<JObj(<<Member("generated_text", JStr("text"))>>)>>),
      JArr(<<JObj(<<>>)>>),
      JObj(<<Member("generated_text", JStr("text"))>>),
      JObj(<<>>),
      JArr(<<>>) }

\* the text returned for a result: generated_text of the first entry of a
\* list or of a dict (default ''), else str(result)
GeneratedText(result) ==
    IF result.t = "arr" /\ LenOf(result) > 0
    THEN Get(result.kids[1].v, "generated_text", JStr("")).s
    ELSE IF result.t = "obj"
    THEN Get(result, "generated_text", JStr("")).s
    ELSE Serialize(result)

\* the messages of the request exceptions
RequestExceptions == {"timeout", "connection refused"}

InitApi ==
    /\ a_pc = "idle"
    /\ a_max \in 0..MaxRetries
    /\ a_attempt = 0
    /\ a_log = <<>>
    /\ a_out = NoOut
    /\ ParserIdle /\ JsonIdle /\ ScoreIdle /\ EvalIdle /\ ValidateIdle /\ RepairIdle /\ AttemptIdle /\ UploadIdle

\* the call enters the loop, or leaves it at once when range(max_retries)
\* is empty
CallApi ==
    /\ a_pc = "idle"
    /\ IF a_max <= 0
       THEN a_pc' = "done" /\ a_out' = MaxRetriesReached
       ELSE a_pc' = "request" /\ UNCHANGED a_out
    /\ UNCHANGED <<a_max, a_attempt, a_log>>
    /\ UNCHANGED <<parserVars, jsonVars, scoreVars, evalVars, validateVars, repairVars, attemptVars, uploadVars>>

\* the request is answered 503: sleep, then the next attempt or the end of
\* the loop
ResponseLoading ==
    /\ a_pc = "request"
    /\ a_log' = Append(a_log, [attempt |-> a_attempt, response |-> "503",
                               wait |-> WaitAfterLoading(a_attempt)])
    /\ IF LastAttempt(a_attempt, a_max)
       THEN a_pc' = "done" /\ a_out' = MaxRetriesReached
              /\ UNCHANGED a_attempt
       ELSE a_attempt' = a_attempt + 1 /\ UNCHANGED <<a_pc, a_out>>
    /\ UNCHANGED a_max
    /\ UNCHANGED <<parserVars, jsonVars, scoreVars, evalVars, validateVars, repairVars, attemptVars, uploadVars>>

\* requests.post or raise_for_status raises a RequestException
ResponseException ==
    /\ a_pc = "request"
    /\ \E e \in RequestExceptions :
         IF a_attempt = a_max - 1
         THEN /\ a_pc' = "done" /\ a_out' = ApiError(e)
              /\ a_log' = Append(a_log, [attempt |-> a_attempt,
                                         response |-> "exception", wait |-> 0])
              /\ UNCHANGED a_attempt
         ELSE /\ a_log' = Append(a_log, [attempt |-> a_attempt,
                                         response |-> "exception",
                                         wait |-> WaitAfterException])
              /\ a_attempt' = a_attempt + 1
              /\ UNCHANGED <<a_pc, a_out>>
    /\ UNCHANGED a_max
    /\ UNCHANGED <<parserVars, jsonVars, scoreVars, evalVars, validateVars, repairVars, attemptVars, uploadVars>>

\* the request succeeds: the generated text is returned
ResponseSuccess ==
    /\ a_pc = "request"
    /\ \E result \in ApiResults :
         a_out' = Returned(<<GeneratedText(result)>>)
    /\ a_log' = Append(a_log, [attempt |-> a_attempt, response |-> "success",
                               wait |-> 0])
    /\ a_pc' = "done"
    /\ UNCHANGED <<a_max, a_attempt>>
    /\ UNCHANGED <<parserVars, jsonVars, scoreVars, evalVars, validateVars, repairVars, attemptVars, uploadVars>>

NextApi == CallApi \/ ResponseLoading \/ ResponseException \/ ResponseSuccess

SpecApi == InitApi /\ [][NextApi]_vars

Succeeded == \E n \in DOMAIN a_log : a_log[n].response = "success"

\* C22: _call_api makes at most max_retries requests whatever the responses
\* are (503, request exception, success); the wait after a 503 on attempt
\* index k is 10*(k+1) seconds; once the ceiling is reached without a
\* successful response the call is reported as failed, not retried.
C22_CallApiBoundedRetries ==
    /\ a_pc \in {"idle", "request", "done"} =>
          /\ Len(a_log) <= Max(a_max, 0)
          /\ \A n \in DOMAIN a_log :
                /\ a_log[n].attempt = n - 1
                /\ a_log[n].response = "503" => a_log[n].wait = 10 * n
          /\ a_pc = "request" => Len(a_log) < a_max
    /\ (a_pc \in {"request", "done"} /\ Len(a_log) >= a_max /\ ~Succeeded) =>
          /\ a_pc = "done"
          /\ a_out.kind = "return"
          /\ a_out.value[1] = "API Error: "

\* three requests were answered 503, exception, 503 and the call gave up
C22_Witness ==
    /\ a_pc = "done" /\ a_max = 3 /\ Len(a_log) = 3
    /\ a_log[1].response = "503" /\ a_log[2].response = "exception"
    /\ a_log[3].response = "503" /\ a_log[3].wait = 30
    /\ a_out = MaxRetriesReached

\* ------------------------------------------------------------------------
\* Descriptive quiz attempts (quiz/views.py, quiz/models.py)
\* ------------------------------------------------------------------------
Students == {"s1", "s2"}
Teachers == {"t1", "t2"}
Users == Students \cup Teachers

\* the institution of the quiz and the teacher who created it
QuizInstitution == "inst1"
QuizCreator == "t1"

\* DescriptiveQuestion.max_marks, the default
MaxMarks == 10

\* is_student(user), is_teacher(user)
is_student(u) == u \in Students
is_teacher(u) == u \in Teachers

\* quiz.institution != user_profile.institution
HasAccess(profile) == profile.institution = QuizInstitution

\* a profile check that looks at the name only
ProfileCompleteNameOnly(profile) == profile.student_name # <<>>

\* not (not user_profile.student_name or not user_profile.roll_number)
ProfileComplete(profile) ==
    profile.student_name # <<>> /\ profile.roll_number # <<>>

\* len(self.answer_text.split())
WordCount(text) ==
    Cardinality({i \in DOMAIN text :
                    ~IsSpace(text[i]) /\ (i = 1 \/ IsSpace(text[i - 1]))})

\* DescriptiveAnswer.objects.create(attempt, question, answer_text='')
NewAnswer ==
    [answer_text |-> <<>>, word_count |-> 0, ai_score |-> 0,
     manual_score |-> 0, final_score |-> 0]

\* DescriptiveQuizAttempt.objects.create(user, quiz, total_marks) with its
\* answer placeholders; submitted_at is FALSE while it is null
NewAttempt(user, questions) ==
    [user |-> user, status |-> "draft", submitted_at |-> FALSE,
     total_marks |-> questions * MaxMarks,
     ai_score |-> 0, manual_score |-> 0, final_score |-> 0,
     reviewed_by |-> "",
     answers |-> [q \in 1..questions |-> NewAnswer]]

\* a lookup of the draft that finds nothing
ExistingDraftNone(attempts, user) == 0

\* filter(user=request.user, quiz=quiz, status='draft').first(), under the
\* ordering -started_at: the id of the latest draft of the user, or 0
ExistingDraft(attempts, user) ==
    LET drafts == {n \in DOMAIN attempts :
                      attempts[n].user = user /\ attempts[n].status = "draft"}
    IN  IF drafts = {} THEN 0
        ELSE CHOOSE n \in drafts : \A o \in drafts : o <= n

\* sum(a[field] for a in answers)
RECURSIVE SumOf(_, _)
SumOf(answers, field) ==
    IF answers = <<>> THEN 0
    ELSE Head(answers)[field] + SumOf(Tail(answers), field)

Render(page, msg) == [code |-> "render", to |-> page, msg |-> msg]
Redirect(to, msg) == [code |-> "redirect", to |-> to, msg |-> msg]
NotFound == [code |-> "404", to |-> "", msg |-> ""]
NoResponse == [code |-> "", to |-> "", msg |-> ""]

\* the answer texts a request may carry
AnswerTexts == {<<>>, <<" ", "a", " ", "b">>}

\* what the evaluation does on submit: no API key, an exception at answer
\* number at, or a score for every answer
EvaluationOutcomes(questions) ==
    {[kind |-> "nokey", at |-> 0, scores |-> [q \in 1..questions |-> 0]]}
    \cup {[kind |-> "raise", at |-> k, scores |-> sc] :
             k \in 1..questions, sc \in [1..questions -> {0, MaxMarks}]}
    \cup {[kind |-> "ok", at |-> 0, scores |-> sc] :
             sc \in [1..questions -> {0, MaxMarks}]}

\* the loop that saves all answers of a POST
SaveAnswers(answers, texts) ==
    [q \in DOMAIN answers |->
        [answers[q] EXCEPT !.answer_text = Strip(texts[q]),
                           !.word_count = WordCount(Strip(texts[q]))]]

\* an answer is evaluated if it has text (enable_ai_evaluation is left at
\* its default, True)
Evaluated(answers, ev) ==
    {q \in DOMAIN answers :
        /\ answers[q].answer_text # <<>>
        /\ ev.kind = "ok" \/ (ev.kind = "raise" /\ q < ev.at)}

\* the evaluation loop of a submit: the evaluated answers get their scores
EvaluateAnswers(answers, ev) ==
    [q \in DOMAIN answers |->
        IF q \in Evaluated(answers, ev)
        THEN [answers[q] EXCEPT !.ai_score = ev.scores[q],
                                !.final_score = ev.scores[q]]
        ELSE answers[q]]

\* the submit branch: the attempt is submitted, then evaluated if the quiz
\* asks for it, the API key is there and nothing raises
SubmitAttempt(attempt, auto_evaluate, ev) ==
    LET submitted == [attempt EXCEPT !.status = "submitted",
                                     !.submitted_at = TRUE]
        answers == EvaluateAnswers(attempt.answers, ev)
    IN  IF ~auto_evaluate \/ ev.kind = "nokey" THEN submitted
        ELSE IF ev.kind = "raise" /\ attempt.answers[ev.at].answer_text # <<>>
        THEN [submitted EXCEPT !.answers = answers]
        ELSE [submitted EXCEPT !.answers = answers,
                               !.ai_score = SumOf(answers, "ai_score"),
                               !.final_score = SumOf(answers, "ai_score"),
                               !.status = "ai_evaluated"]

SubmitMessage(attempt, auto_evaluate, ev) ==
    IF ~auto_evaluate \/ ev.kind = "nokey"
    THEN "Quiz submitted! Awaiting teacher review."
    ELSE IF ev.kind = "raise" /\ attempt.answers[ev.at].answer_text # <<>>
    THEN "Quiz submitted! AI evaluation will be done later."
    ELSE "Quiz submitted and AI evaluation completed!"

NoHistory == [rendered |-> FALSE, submitted |-> FALSE, reviewed |-> FALSE]

\* the profiles of the second student: admitted, of another institution,
\* without a roll number, or of another institution with nothing filled in
Profile(institution, student_name, roll_number) ==
    [institution |-> institution, student_name |-> student_name,
     roll_number |-> roll_number]

Profiles ==
    { Profile("inst1", <<"n">>, <<"7">>), Profile("inst2", <<"n">>, <<"7">>),
      Profile("inst1", <<"n">>, <<>>), Profile("inst1", <<>>, <<"7">>),
      Profile("inst2", <<>>, <<>>) }

InitAttempt ==
    /\ t_profiles \in [Students -> Profiles]
    /\ t_profiles["s1"] = Profile("inst1", <<"n">>, <<"7">>)
    /\ t_quiz \in [is_active : BOOLEAN, auto_evaluate : BOOLEAN,
                   questions : 0..MaxQuizQuestions]
    /\ t_attempts = <<>>
    /\ t_hist = [s \in Students |-> NoHistory]
    /\ t_resp = NoResponse
    /\ ParserIdle /\ JsonIdle /\ ScoreIdle /\ EvalIdle /\ ValidateIdle /\ RepairIdle /\ ApiIdle /\ UploadIdle

OthersIdle ==
    UNCHANGED <<parserVars, jsonVars, scoreVars, evalVars, validateVars, repairVars, apiVars, uploadVars>>

\* the request is turned away before the attempt is looked up: by the
\* is_student test, a 404 for an inactive quiz, or the two profile checks
Refusal(u) ==
    IF ~is_student(u) THEN Redirect("dashboard", "")
    ELSE IF ~t_quiz.is_active THEN NotFound
    ELSE IF ~HasAccess(t_profiles[u])
    THEN Redirect("student_descriptive_quizzes",
                  "You do not have access to this quiz.")
    ELSE IF ~ProfileComplete(t_profiles[u])
    THEN Redirect("student_info", "Please complete your profile first.")
    ELSE NoResponse

\* take_descriptive_quiz(request, quiz_id) for user u: GET, or POST with
\* an action (absent: the default 'save')
TakeDescriptiveQuizBy(u, method, action) ==
    /\ UNCHANGED <<t_profiles, t_quiz>>
    /\ OthersIdle
    /\ IF Refusal(u) # NoResponse
       THEN /\ t_resp' = Refusal(u)
            /\ UNCHANGED <<t_attempts, t_hist>>
       ELSE LET existing == ExistingDraft(t_attempts, u)
                id == IF existing # 0 THEN existing ELSE Len(t_attempts) + 1
                opened == IF existing # 0 THEN t_attempts
                          ELSE Append(t_attempts,
                                      NewAttempt(u, t_quiz.questions))
            IN  /\ existing # 0 \/ Len(t_attempts) < MaxAttempts
                /\ IF method = "GET"
                   THEN /\ t_attempts' = opened
                        /\ t_resp' = Render("take_descriptive_quiz", "")
                        /\ t_hist' = [t_hist EXCEPT ![u].rendered = TRUE]
                   ELSE \E texts \in [1..t_quiz.questions -> AnswerTexts] :
                        LET saved ==
                              [opened EXCEPT ![id].answers =
                                  SaveAnswers(opened[id].answers, texts)]
                        IN  IF action = "submit"
                            THEN \E ev \in EvaluationOutcomes(t_quiz.questions) :
                                 /\ t_attempts' =
                                      [saved EXCEPT ![id] =
                                         SubmitAttempt(saved[id],
                                                       t_quiz.auto_evaluate, ev)]
                                 /\ t_resp' =
                                      Redirect("descriptive_quiz_results",
                                        SubmitMessage(saved[id],
                                                      t_quiz.auto_evaluate, ev))
                                 /\ t_hist' = [t_hist EXCEPT ![u].submitted = TRUE]
                            ELSE /\ t_attempts' = saved
                                 /\ t_resp' =
                                      Render("take_descriptive_quiz",
                                        "Progress saved! You can continue later.")
                                 /\ t_hist' = [t_hist EXCEPT ![u].rendered = TRUE]

TakeDescriptiveQuiz ==
    \E u \in Users, method \in {"GET", "POST"},
       action \in {"save", "submit", "absent"} :
        TakeDescriptiveQuizBy(u, method, action)

\* save_descriptive_progress(request): the AJAX save of one answer; a GET,
\* an attempt that is not a draft of the user, or an unknown question
\* changes nothing
SaveDescriptiveProgress ==
    \E u \in Users, attempt_id \in DOMAIN t_attempts :
      /\ t_attempts[attempt_id].user = u
      /\ t_attempts[attempt_id].status = "draft"
      /\ \E question_id \in DOMAIN t_attempts[attempt_id].answers,
            answer_text \in AnswerTexts :
           t_attempts' =
              [t_attempts EXCEPT ![attempt_id].answers[question_id] =
                 [@ EXCEPT !.answer_text = answer_text,
                           !.word_count = WordCount(answer_text)]]
      /\ UNCHANGED <<t_profiles, t_quiz, t_hist, t_resp>>
      /\ OthersIdle

\* a score field of the review form: absent, not a number, or a number
NoScore == [given |-> FALSE, numeric |-> FALSE, value |-> 0]
BadScore == [given |-> TRUE, numeric |-> FALSE, value |-> 0]
Score(v) == [given |-> TRUE, numeric |-> TRUE, value |-> v]
PostedScores ==
    {NoScore, BadScore} \cup {Score(v) : v \in {0, MaxMarks, MaxMarks + 1}}

\* the score is taken: it is a number within 0..max_marks
ValidScore(p) == p.given /\ p.numeric /\ 0 <= p.value /\ p.value <= MaxMarks

\* answer.ai_score * weight multiplies a Decimal by a float: TypeError
WeightingRaises(answer, p) == ValidScore(p) /\ answer.ai_score # 0

\* the answers as the scoring loop leaves them when it stops before answer
\* number stop (all of them when stop is past the last)
ScoreAnswers(answers, posted, stop) ==
    [q \in DOMAIN answers |->
        IF q < stop /\ ValidScore(posted[q])
        THEN [answers[q] EXCEPT !.manual_score = posted[q].value,
                                !.final_score = posted[q].value]
        ELSE answers[q]]

\* the sums over the answers add float (scored in this request) and Decimal
\* (read from the database) values: TypeError when both kinds meet
SumsRaise(answers, posted) ==
    LET scored == {q \in DOMAIN answers : ValidScore(posted[q])}
        others == DOMAIN answers \ scored
    IN  \/ /\ \E q \in scored : posted[q].value # 0
           /\ \E q \in others : answers[q].manual_score # 0
        \/ scored # {} /\ others # {}

\* review_descriptive_attempt(request, attempt_id), POST by a teacher on an
\* attempt that exists; a GET, a user who is no teacher, an unknown id and
\* a teacher who did not create the quiz change nothing
ReviewDescriptiveAttempt ==
    \E u \in Teachers, attempt_id \in DOMAIN t_attempts :
      /\ QuizCreator = u
      /\ \E posted \in [1..t_quiz.questions -> PostedScores] :
           LET attempt == t_attempts[attempt_id]
               raising == {q \in DOMAIN attempt.answers :
                              WeightingRaises(attempt.answers[q], posted[q])}
               stop == IF raising = {} THEN Len(attempt.answers) + 1
                       ELSE Least(raising)
               answers == ScoreAnswers(attempt.answers, posted, stop)
           IN  IF raising # {} \/ SumsRaise(attempt.answers, posted)
               THEN t_attempts' =
                       [t_attempts EXCEPT ![attempt_id].answers = answers]
               ELSE t_attempts' =
                       [t_attempts EXCEPT ![attempt_id] =
                          [@ EXCEPT !.answers = answers,
                                    !.manual_score = SumOf(answers, "manual_score"),
                                    !.final_score = SumOf(answers, "final_score"),
                                    !.status = "manually_reviewed",
                                    !.reviewed_by = u]]
      /\ t_hist' = [t_hist EXCEPT ![t_attempts[attempt_id].user].reviewed = TRUE]
      /\ UNCHANGED <<t_profiles, t_quiz, t_resp>>
      /\ OthersIdle

NextAttempt ==
    TakeDescriptiveQuiz \/ SaveDescriptiveProgress \/ ReviewDescriptiveAttempt

SpecAttempt == InitAttempt /\ [][NextAttempt]_vars

AttemptsOf(u) == {n \in DOMAIN t_attempts : t_attempts[n].user = u}

\* the student is of the quiz's institution, with name and roll number
Admitted(s) ==
    /\ t_profiles[s].institution = QuizInstitution
    /\ t_profiles[s].student_name # <<>>
    /\ t_profiles[s].roll_number # <<>>

TakeRequests == {"GET", "POST"} \X {"save", "submit", "absent"}

\* C23: take_descriptive_quiz creates or modifies an attempt (and its
\* answers) only for a student whose institution is the quiz's and whose
\* profile has both student_name and roll_number; a student of another
\* institution is refused, one with an incomplete profile is redirected to
\* the student-info page, and in both cases no record is created.
C23_OnlyAdmittedStudentsAttempt ==
    [][\A s \in Students, r \in TakeRequests :
         (TakeDescriptiveQuizBy(s, r[1], r[2]) /\ ~Admitted(s)) =>
             /\ t_attempts' = t_attempts
             /\ (t_quiz.is_active
                   /\ t_profiles[s].institution # QuizInstitution) =>
                   /\ t_resp'.code = "redirect"
                   /\ t_resp'.to = "student_descriptive_quizzes"
             /\ (t_quiz.is_active
                   /\ t_profiles[s].institution = QuizInstitution) =>
                   /\ t_resp'.code = "redirect"
                   /\ t_resp'.to = "student_info"]_vars

\* a student with a name and no roll number was sent to the student-info
\* page while another student has an attempt
C23_Witness ==
    /\ t_profiles["s2"] = Profile("inst1", <<"n">>, <<>>)
    /\ t_resp = Redirect("student_info", "Please complete your profile first.")
    /\ AttemptsOf("s1") # {} /\ AttemptsOf("s2") = {}

\* the student made requests to take_descriptive_quiz that were served,
\* none of them a submit, and no review touched the student's attempts
OnlySaved(s) ==
    t_hist[s].rendered /\ ~t_hist[s].submitted /\ ~t_hist[s].reviewed

\* C24: after any sequence of GET requests and POSTs with action 'save' by
\* one student on the quiz, served one after another, the student has
\* exactly one attempt for the quiz and it is a draft: saving stores the
\* answers, reports 'Progress saved', reuses the draft and never submits.
C24_SavingKeepsOneDraft ==
    /\ [](\A s \in Students :
            OnlySaved(s) =>
                /\ Cardinality(AttemptsOf(s)) = 1
                /\ \A n \in AttemptsOf(s) :
                      /\ t_attempts[n].status = "draft"
                      /\ ~t_attempts[n].submitted_at)
    /\ [][\A s \in Students, action \in {"save", "absent"} :
            (/\ TakeDescriptiveQuizBy(s, "POST", action)
             /\ Admitted(s) /\ t_quiz.is_active) =>
                /\ t_resp'.code = "render"
                /\ t_resp'.msg = "Progress saved! You can continue later."
                /\ ExistingDraft(t_attempts, s) # 0 =>
                      /\ Len(t_attempts') = Len(t_attempts)
                      /\ ExistingDraft(t_attempts', s) = ExistingDraft(t_attempts, s)
                /\ \E n \in AttemptsOf(s)' :
                      /\ t_attempts'[n].status = "draft"
                      /\ \A q \in DOMAIN t_attempts'[n].answers :
                            t_attempts'[n].answers[q].answer_text
                              \in {Strip(t) : t \in AnswerTexts}]_vars

\* a save stored a non-empty answer in the one draft of a student, who had
\* opened the quiz before, while the other student has submitted
C24_Witness ==
    /\ OnlySaved("s2") /\ t_hist["s1"].submitted
    /\ t_resp = Render("take_descriptive_quiz",
                       "Progress saved! You can continue later.")
    /\ Cardinality(AttemptsOf("s2")) = 1
    /\ \E n \in AttemptsOf("s2") :
          /\ t_attempts[n].answers # <<>>
          /\ t_attempts[n].answers[1].answer_text = <<"a", " ", "b">>
          /\ t_attempts[n].answers[1].word_count = 2

\* C29: an attempt reaches 'manually_reviewed' only after it has been
\* submitted: whatever the students and teachers request, every attempt in
\* 'manually_reviewed' has submitted_at set.
C29_ReviewedOnlyAfterSubmit ==
    \A n \in DOMAIN t_attempts :
        t_attempts[n].status = "manually_reviewed" => t_attempts[n].submitted_at

\* ------------------------------------------------------------------------
\* Preview and import of one QuestionUpload (quiz/views.py, quiz/admin.py)
\* ------------------------------------------------------------------------
UploadRequests == 1..MaxUploadRequests

\* the views that read the upload: the two previews and the two imports
PreviewViews == {"preview_questions_standalone", "preview_upload_view"}
ProcessViews == {"process_questions_standalone", "process_upload_view"}

\* the standalone views refuse a user of another institution who is no
\* superuser; the admin views have no such check
AccessDenied(req) ==
    req.view \in {"preview_questions_standalone", "process_questions_standalone"}
      /\ ~req.allowed

InitUpload ==
    /\ u_file \in [parses : BOOLEAN, questions : 0..MaxQuestions]
    /\ u_upload = [processed |-> FALSE, questions_imported |-> 0, error |-> FALSE]
    /\ u_req = [r \in UploadRequests |->
                  [view |-> "", allowed |-> TRUE, pc |-> "idle"]]
    /\ u_created = [r \in UploadRequests |-> 0]
    /\ ParserIdle /\ JsonIdle /\ ScoreIdle /\ EvalIdle /\ ValidateIdle /\ RepairIdle /\ ApiIdle /\ AttemptIdle

UploadOthersIdle ==
    UNCHANGED <<parserVars, jsonVars, scoreVars, evalVars, validateVars, repairVars, apiVars, attemptVars>>

\* a request arrives: get_object_or_404, the access check and the check of
\* upload.processed; it goes on only if the upload is not processed
ReadUpload ==
    \E r \in UploadRequests, view \in PreviewViews \cup ProcessViews,
       allowed \in BOOLEAN :
      /\ u_req[r].pc = "idle"
      /\ LET req == [view |-> view, allowed |-> allowed, pc |-> "idle"]
         IN  u_req' = [u_req EXCEPT ![r] =
                         [req EXCEPT !.pc =
                            IF AccessDenied(req) \/ u_upload.processed
                            THEN "refused" ELSE "checked"]]
      /\ UNCHANGED <<u_file, u_upload, u_created>>
      /\ UploadOthersIdle

\* the rest of a preview: the file is parsed and shown; a failure marks the
\* upload as processed with an error
Preview ==
    \E r \in UploadRequests :
      /\ u_req[r].pc = "checked"
      /\ u_req[r].view \in PreviewViews
      /\ u_req' = [u_req EXCEPT ![r].pc = "done"]
      /\ IF u_file.parses THEN UNCHANGED u_upload
         ELSE u_upload' = [u_upload EXCEPT !.processed = TRUE, !.error = TRUE]
      /\ UNCHANGED <<u_file, u_created>>
      /\ UploadOthersIdle

\* the rest of an import: the file is parsed, a Question row is created
\* for every question, and the upload is saved as processed; the row is
\* not read again, whatever it has become since the check
Process ==
    \E r \in UploadRequests :
      /\ u_req[r].pc = "checked"
      /\ u_req[r].view \in ProcessViews
      /\ u_req' = [u_req EXCEPT ![r].pc = "done"]
      /\ IF u_file.parses
         THEN /\ u_created' = [u_created EXCEPT ![r] = u_file.questions]
              /\ u_upload' = [u_upload EXCEPT
                                !.processed = TRUE,
                                !.questions_imported = u_file.questions]
         ELSE /\ u_upload' = [u_upload EXCEPT !.processed = TRUE,
                                              !.questions_imported = 0,
                                              !.error = TRUE]
              /\ UNCHANGED u_created
      /\ UNCHANGED u_file
      /\ UploadOthersIdle

NextUpload == ReadUpload \/ Preview \/ Process

SpecUpload == InitUpload /\ [][NextUpload]_vars

\* C30: the questions of one QuestionUpload are imported at most once: for
\* any sequence of preview and process requests on the upload, two process
\* requests that overlap in time included, Question rows are created by at
\* most one process request.
C30_ImportedAtMostOnce ==
    Cardinality({r \in UploadRequests : u_created[r] > 0}) <= 1

====
